---- MODULE Spec2Model ----
(***************************************************************************)
(* A model of the L7S workflow analysis pipeline (src/pipeline):           *)
(*   - run_pipeline.py    the orchestrator, one run after another          *)
(*   - csv_manager.py     the dataset, the two ledgers, the manifest       *)
(*   - frame_extractor.py the metadata probe                               *)
(*   - gemini_analyzer.py the two-pass analysis engine and its retry loop  *)
(* Durations are counted in tenths of a second (duration_sec is rounded to *)
(* one decimal), scores in hundredths.                                     *)
(***************************************************************************)
EXTENDS Integers, Sequences, FiniteSets, TLC

VARIABLES
    \* ---- what is on disk
    dataset,        \* workflow_analysis.csv: the header line, then the rows
    processed_log,  \* processed.log: one video_id per line
    rejected_log,   \* rejected.log: video_id|timestamp|reason per line
    sessions,       \* workflow_sessions.csv: Status / RejectionReason per row
    files,          \* which of a video's files are still in the working directory
    analyses,       \* the per-video markdown artifacts that exist
    \* ---- one run of run_pipeline
    pc,             \* position of the orchestrator
    runs,           \* runs started so far
    args,           \* the command line of the current run
    to_process,     \* the list the loop iterates over
    i,              \* the loop index (1-based)
    stats,          \* the run statistics
    loc,            \* locals of the current iteration
    run_info,       \* what the run observed when it started
    faults,         \* I/O faults injected so far (read, write and move errors)
    \* ---- one call of _call_gemini, attempt by attempt
    call,
    \* ---- one application of a function to an argument: [fn, input, output, done]
    eval

vars == <<dataset, processed_log, rejected_log, sessions, files, analyses,
          pc, runs, args, to_process, i, stats, loc, run_info, faults, call, eval>>

disk_vars == <<dataset, processed_log, rejected_log, sessions, files, analyses>>
run_vars == <<pc, runs, args, to_process, i, stats, loc, run_info, faults>>

\* ------------------------------------------------------------------------
\* Bounds of the model
\* ------------------------------------------------------------------------
NumVideos == 2      \* discovered videos
MaxRuns == 3        \* runs of the pipeline, one after another
MaxFaults == 1      \* I/O errors (ledger read, file write, file move) in a behaviour

\* ------------------------------------------------------------------------
\* config.py
\* ------------------------------------------------------------------------
API_CALL_DELAY_SECONDS == 5
VIDEO_UPLOAD_POLL_INTERVAL == 5
VIDEO_UPLOAD_TIMEOUT == 300
MAX_API_RETRIES == 5
RATE_LIMIT_INITIAL_BACKOFF == 10
MIN_VIDEO_DURATION_SEC == 5
MAX_VIDEO_DURATION_SEC == 3600

None == "None"

\* ------------------------------------------------------------------------
\* gemini_analyzer.py: _call_gemini
\* ------------------------------------------------------------------------
\* (mutant) a backoff that grows by one step instead of doubling.
Pow2_Linear(n) == n + 1

RECURSIVE Pow2(_)
Pow2(n) == IF n <= 0 THEN 1 ELSE 2 * Pow2(n - 1)

\* What one generate_content invocation can do: return text, return a response
\* without text, or raise an error whose message carries some of the markers
\* the except clause looks for.
ErrorMarks == {"429", "safety"}
Responses ==
    {[kind |-> "text", marks |-> {}], [kind |-> "empty", marks |-> {}]}
    \cup {[kind |-> "error", marks |-> m] : m \in SUBSET ErrorMarks}

\* The classification of lines 395-414, in the order the code tests.
Classify(r) ==
    IF r.kind = "text" THEN "text"
    ELSE IF r.kind = "empty" THEN "empty"
    ELSE IF "429" \in r.marks THEN "rate_limit"
    ELSE IF "safety" \in r.marks THEN "blocked"
    ELSE "other"

CallInit ==
    [attempt |-> 1, status |-> "running", result |-> None,
     calls |-> 0, waits |-> <<>>, log |-> <<>>]

\* The end of one loop iteration: the next attempt, or the loop is exhausted
\* and lines 418-419 return None.
NextAttempt(st) ==
    IF st.attempt < MAX_API_RETRIES
    THEN [st EXCEPT !.attempt = @ + 1]
    ELSE [st EXCEPT !.status = "returned", !.result = None]

\* (mutant) a rate-limited attempt is retried without consuming the budget.
CallStep_RetryInPlace(st, r) ==
    LET k == Classify(r)
        called == [st EXCEPT !.calls = @ + 1, !.log = Append(@, k)]
    IN  IF k = "text" THEN [called EXCEPT !.status = "returned", !.result = "text"]
        ELSE IF k = "rate_limit"
             THEN [called EXCEPT !.waits = Append(@, RATE_LIMIT_INITIAL_BACKOFF * Pow2(st.attempt - 1))]
        ELSE IF k = "blocked" THEN [called EXCEPT !.status = "returned", !.result = None]
        ELSE NextAttempt(called)

\* (mutant) a content block is treated like any other error and retried.
CallStep_RetryBlocked(st, r) ==
    LET k == Classify(r)
        called == [st EXCEPT !.calls = @ + 1, !.log = Append(@, k)]
    IN  IF k = "text" THEN [called EXCEPT !.status = "returned", !.result = "text"]
        ELSE IF k = "empty" THEN NextAttempt(called)
        ELSE IF k = "rate_limit"
             THEN NextAttempt([called EXCEPT !.waits =
                      Append(@, RATE_LIMIT_INITIAL_BACKOFF * Pow2(st.attempt - 1))])
        ELSE NextAttempt(IF st.attempt < MAX_API_RETRIES
                         THEN [called EXCEPT !.waits = Append(@, API_CALL_DELAY_SECONDS)]
                         ELSE called)

\* (mutant) an empty response ends the call at once.
CallStep_EmptyReturns(st, r) ==
    LET k == Classify(r)
        called == [st EXCEPT !.calls = @ + 1, !.log = Append(@, k)]
    IN  IF k = "text" THEN [called EXCEPT !.status = "returned", !.result = "text"]
        ELSE IF k = "empty" THEN [called EXCEPT !.status = "returned", !.result = None]
        ELSE IF k = "rate_limit"
             THEN NextAttempt([called EXCEPT !.waits =
                      Append(@, RATE_LIMIT_INITIAL_BACKOFF * Pow2(st.attempt - 1))])
        ELSE IF k = "blocked" THEN [called EXCEPT !.status = "returned", !.result = None]
        ELSE NextAttempt(IF st.attempt < MAX_API_RETRIES
                         THEN [called EXCEPT !.waits = Append(@, API_CALL_DELAY_SECONDS)]
                         ELSE called)

\* One iteration of the for loop (lines 388-416) on the service's answer r.
CallStep(st, r) ==
    LET k == Classify(r)
        called == [st EXCEPT !.calls = @ + 1, !.log = Append(@, k)]
    IN  IF k = "text" THEN [called EXCEPT !.status = "returned", !.result = "text"]
        ELSE IF k = "empty" THEN NextAttempt(called)
        ELSE IF k = "rate_limit"
             THEN NextAttempt([called EXCEPT !.waits =
                      Append(@, RATE_LIMIT_INITIAL_BACKOFF * Pow2(st.attempt - 1))])
        ELSE IF k = "blocked" THEN [called EXCEPT !.status = "returned", !.result = None]
        ELSE NextAttempt(IF st.attempt < MAX_API_RETRIES
                         THEN [called EXCEPT !.waits = Append(@, API_CALL_DELAY_SECONDS)]
                         ELSE called)

\* _call_gemini run to its end on a script of answers, one per attempt.
RECURSIVE CallRun(_, _)
CallRun(st, script) ==
    IF st.status # "running" THEN st
    ELSE CallRun(CallStep(st, script[st.attempt]), script)

call_gemini(script) == CallRun(CallInit, script).result

\* ------------------------------------------------------------------------
\* gemini_analyzer.py: the Pass 2 response and its parsing
\* ------------------------------------------------------------------------
\* JSON values. Numbers are in hundredths (0.6 is 60, 5 is 500); a list is
\* kept as its json.dumps text.
JNum(n) == [t |-> "number", n |-> n, s |-> ""]
JStr(s) == [t |-> "string", n |-> 0, s |-> s]
JList(s) == [t |-> "list", n |-> 0, s |-> s]
JNull == [t |-> "null", n |-> 0, s |-> ""]
\* true and false: bool is a subclass of int, float(True) is 1.0
JBool(b) == [t |-> "bool", n |-> IF b THEN 100 ELSE 0, s |-> IF b THEN "True" ELSE "False"]
\* the literals Infinity, -Infinity and NaN, which json.loads accepts
JSpecial(name) == [t |-> "number", n |-> 0, s |-> name]
SpecialFloats == {"inf", "-inf", "nan"}

Get(obj, key, default) == IF key \in DOMAIN obj THEN obj[key] ELSE default

DigitChars == <<"0", "1", "2", "3", "4", "5", "6", "7", "8", "9">>
DigitValue(c) ==
    IF \E d \in 1..10 : DigitChars[d] = c
    THEN (CHOOSE d \in 1..10 : DigitChars[d] = c) - 1 ELSE -1

RECURSIVE NatText(_)
NatText(n) == IF n < 10 THEN DigitChars[n + 1]
              ELSE NatText(n \div 10) \o DigitChars[(n % 10) + 1]

\* str() of a number: an integral value prints as an int, another one with
\* its decimals.
NumText(n) ==
    LET a == IF n < 0 THEN -n ELSE n
        sign == IF n < 0 THEN "-" ELSE ""
    IN  IF a % 100 = 0 THEN sign \o NatText(a \div 100)
        ELSE IF a % 10 = 0 THEN sign \o NatText(a \div 100) \o "." \o NatText((a % 100) \div 10)
        ELSE sign \o NatText(a \div 100) \o "." \o NatText((a % 100) \div 10) \o NatText(a % 10)

py_str(v) ==
    CASE v.t = "string" -> v.s
      [] v.t = "number" -> IF v.s \in SpecialFloats THEN v.s ELSE NumText(v.n)
      [] v.t = "null" -> "None"
      [] OTHER -> v.s

\* float() of a text: [-]digits[.digits], read to hundredths; anything else
\* is a ValueError.
RECURSIVE AllDigits(_)
AllDigits(s) == Len(s) = 0 \/ (DigitValue(SubSeq(s, 1, 1)) >= 0 /\ AllDigits(SubSeq(s, 2, Len(s))))

RECURSIVE DigitsValue(_)
DigitsValue(s) == IF Len(s) = 0 THEN 0
                  ELSE DigitsValue(SubSeq(s, 1, Len(s) - 1)) * 10 + DigitValue(SubSeq(s, Len(s), Len(s)))

DotAt(s) == IF \E k \in 1..Len(s) : SubSeq(s, k, k) = "."
            THEN CHOOSE k \in 1..Len(s) : SubSeq(s, k, k) = "." /\ \A j \in 1..(k - 1) : SubSeq(s, j, j) # "."
            ELSE 0

UnsignedFloat(s) ==
    LET d == DotAt(s)
        whole == IF d = 0 THEN s ELSE SubSeq(s, 1, d - 1)
        frac == IF d = 0 THEN "" ELSE SubSeq(s, d + 1, Len(s))
        frac2 == SubSeq(frac \o "00", 1, 2)
    IN  IF Len(whole) + Len(frac) > 0 /\ AllDigits(whole) /\ AllDigits(frac)
        THEN [ok |-> TRUE, n |-> DigitsValue(whole) * 100 + DigitsValue(frac2)]
        ELSE [ok |-> FALSE, n |-> 0]

float_of_text(s) ==
    IF Len(s) > 0 /\ SubSeq(s, 1, 1) = "-"
    THEN LET u == UnsignedFloat(SubSeq(s, 2, Len(s))) IN [ok |-> u.ok, n |-> 0 - u.n]
    ELSE UnsignedFloat(s)

\* float(value): a number, a numeric text; ValueError / TypeError otherwise.
\* special names an infinity or NaN ("" for a finite value).
py_float(v) ==
    CASE v.t = "number" /\ v.s \in SpecialFloats -> [ok |-> TRUE, n |-> 0, special |-> v.s]
      [] v.t = "number" /\ v.s \notin SpecialFloats -> [ok |-> TRUE, n |-> v.n, special |-> ""]
      [] v.t = "bool" -> [ok |-> TRUE, n |-> v.n, special |-> ""]
      [] v.t = "string" /\ v.s \in SpecialFloats -> [ok |-> TRUE, n |-> 0, special |-> v.s]
      [] v.t = "string" /\ v.s \notin SpecialFloats ->
            [ok |-> float_of_text(v.s).ok, n |-> float_of_text(v.s).n, special |-> ""]
      [] OTHER -> [ok |-> FALSE, n |-> 0, special |-> ""]

Min(a, b) == IF a <= b THEN a ELSE b
Max(a, b) == IF a >= b THEN a ELSE b

\* _clamp_float (lines 486-492), in hundredths.
\* min(max_val, nan) is max_val: the comparison nan < max_val is false.
clamp_float(value, min_val, max_val) ==
    LET f == py_float(value)
    IN  IF ~f.ok THEN 0
        ELSE IF f.special = "-inf" THEN min_val
        ELSE IF f.special \in {"inf", "nan"} THEN max_val
        ELSE Max(min_val, Min(max_val, f.n))

\* _safe_int (lines 495-500): int(float(value)) truncates toward zero.
\* int(nan) is a ValueError, int(inf) an OverflowError, which is not caught.
safe_int(value) ==
    LET f == py_float(value)
    IN  IF ~f.ok \/ f.special # "" THEN 0
        ELSE IF f.n >= 0 THEN f.n \div 100 ELSE 0 - ((0 - f.n) \div 100)

safe_int_raises(value) == py_float(value).special \in {"inf", "-inf"}

\* _ensure_json_list (lines 471-483).
IsJsonListText(s) == Len(s) >= 2 /\ SubSeq(s, 1, 1) = "[" /\ SubSeq(s, Len(s), Len(s)) = "]"

ensure_json_list(value) ==
    CASE value.t = "list" -> value.s
      [] value.t = "string" ->
            IF IsJsonListText(value.s) THEN value.s ELSE "[\"" \o value.s \o "\"]"
      [] OTHER -> "[]"

\* _empty_structured (lines 456-468).
empty_structured ==
    [workflow_description |-> "",
     primary_app |-> "Unknown",
     app_sequence |-> "[]",
     detected_actions |-> "[]",
     automation_score |-> 0,
     workflow_category |-> "other",
     sop_step_count |-> 0,
     automation_candidate_count |-> 0,
     top_automation_candidate |-> ""]

\* The return statement of _parse_json_response (lines 443-453) on a JSON object.
structured_of(data) ==
    [workflow_description |-> py_str(Get(data, "workflow_description", JStr(""))),
     primary_app |-> py_str(Get(data, "primary_app", JStr("Unknown"))),
     app_sequence |-> ensure_json_list(Get(data, "app_sequence", JList("[]"))),
     detected_actions |-> ensure_json_list(Get(data, "detected_actions", JList("[]"))),
     automation_score |-> clamp_float(Get(data, "automation_score", JNum(0)), 0, 100),
     workflow_category |-> py_str(Get(data, "workflow_category", JStr("other"))),
     sop_step_count |-> safe_int(Get(data, "sop_step_count", JNum(0))),
     automation_candidate_count |-> safe_int(Get(data, "automation_candidate_count", JNum(0))),
     top_automation_candidate |-> py_str(Get(data, "top_automation_candidate", JStr("")))]

\* A Pass 2 response text: what json.loads makes of it (form "json"), what
\* the fence regex finds in it when json.loads fails (form "fenced": the
\* text between the fences, valid or not), or neither (form "garbage").
\* A parsed value is an object (its fields) or something else.
\* _parse_json_response (lines 427-453): the structured result, or the
\* AttributeError of data.get on a JSON value that is no object, or the
\* OverflowError of _safe_int on an infinite count.
parse_json_response(text) ==
    IF text.form = "garbage" \/ (text.form = "fenced" /\ ~text.valid)
    THEN [raised |-> FALSE, structured |-> empty_structured]
    ELSE IF ~text.is_object
    THEN [raised |-> TRUE, structured |-> empty_structured]
    ELSE IF \/ safe_int_raises(Get(text.data, "sop_step_count", JNum(0)))
            \/ safe_int_raises(Get(text.data, "automation_candidate_count", JNum(0)))
    THEN [raised |-> TRUE, structured |-> empty_structured]
    ELSE [raised |-> FALSE, structured |-> structured_of(text.data)]

\* ------------------------------------------------------------------------
\* gemini_analyzer.py: _check_analysis_quality (lines 503-535)
\* ------------------------------------------------------------------------
RECURSIVE LStrip(_)
LStrip(s) == IF Len(s) > 0 /\ SubSeq(s, 1, 1) = " " THEN LStrip(SubSeq(s, 2, Len(s))) ELSE s
RECURSIVE RStrip(_)
RStrip(s) == IF Len(s) > 0 /\ SubSeq(s, Len(s), Len(s)) = " "
             THEN RStrip(SubSeq(s, 1, Len(s) - 1)) ELSE s
strip(s) == RStrip(LStrip(s))

NoApp == "No application detected"
NoSteps == "No workflow steps detected"
LowScore == "Very low automation potential"
NoDescription == "No meaningful workflow description"

\* (mutant) a gate that lets every structure through.
check_analysis_quality_Lenient(structured) == [is_useful |-> TRUE, reason |-> ""]

\* (mutant) the score is checked before the step count.
check_analysis_quality_ScoreFirst(structured) ==
    LET primary_app == strip(structured.primary_app)
        workflow_desc == strip(structured.workflow_description)
    IN  IF primary_app \in {"", "Unknown", "N/A", "None"}
        THEN [is_useful |-> FALSE, reason |-> "No application detected"]
        ELSE IF structured.automation_score < 30
        THEN [is_useful |-> FALSE, reason |-> "Very low automation potential"]
        ELSE IF structured.sop_step_count = 0
        THEN [is_useful |-> FALSE, reason |-> "No workflow steps detected"]
        ELSE IF workflow_desc = "" \/ Len(workflow_desc) < 20
        THEN [is_useful |-> FALSE, reason |-> "No meaningful workflow description"]
        ELSE [is_useful |-> TRUE, reason |-> ""]

\* lines 503-535
check_analysis_quality(structured) ==
    LET primary_app == strip(structured.primary_app)
        automation_score == structured.automation_score
        sop_steps == structured.sop_step_count
        workflow_desc == strip(structured.workflow_description)
    IN  IF primary_app \in {"", "Unknown", "N/A", "None"}
        THEN [is_useful |-> FALSE, reason |-> NoApp]
        ELSE IF sop_steps = 0
        THEN [is_useful |-> FALSE, reason |-> NoSteps]
        ELSE IF automation_score < 30
        THEN [is_useful |-> FALSE, reason |-> LowScore]
        ELSE IF workflow_desc = "" \/ Len(workflow_desc) < 20
        THEN [is_useful |-> FALSE, reason |-> NoDescription]
        ELSE [is_useful |-> TRUE, reason |-> ""]

\* ------------------------------------------------------------------------
\* gemini_analyzer.py: _upload_video (lines 177-209)
\* ------------------------------------------------------------------------
\* The remote side of one upload: files.upload raises or returns a handle;
\* the first `processing` reads of the handle's state (the one that comes
\* with the upload, then one per files.get) say PROCESSING, every later
\* read gives `final`: ACTIVE, FAILED, or files.get raising.
TimeoutChecks == VIDEO_UPLOAD_TIMEOUT \div VIDEO_UPLOAD_POLL_INTERVAL

Remotes ==
    {[upload |-> "raise", processing |-> 0, final |-> "ACTIVE"]}
    \cup {[upload |-> "ok", processing |-> n, final |-> f] :
            n \in {0, 1, TimeoutChecks, TimeoutChecks + 1}, f \in {"ACTIVE", "FAILED"}}
    \cup {[upload |-> "ok", processing |-> 1, final |-> "raise"]}

StateRead(remote, j) == IF j < remote.processing THEN "PROCESSING" ELSE remote.final

\* The while loop of lines 190-203 from its j-th state read on, then lines
\* 205-209.
RECURSIVE Poll(_, _, _)
Poll(remote, elapsed, j) ==
    LET state == StateRead(remote, j)
    IN  IF state = "raise"
        THEN [outcome |-> "raised", delete_attempted |-> FALSE, checks |-> j]
        ELSE IF state = "PROCESSING"
        THEN IF elapsed >= VIDEO_UPLOAD_TIMEOUT
             THEN [outcome |-> "TimeoutError", delete_attempted |-> TRUE, checks |-> j]
             ELSE Poll(remote, elapsed + VIDEO_UPLOAD_POLL_INTERVAL, j + 1)
        ELSE IF state = "FAILED"
        THEN [outcome |-> "RuntimeError", delete_attempted |-> FALSE, checks |-> j]
        ELSE [outcome |-> "ready", delete_attempted |-> FALSE, checks |-> j]

upload_video(remote) == Poll(remote, 0, 0)

\* ------------------------------------------------------------------------
\* gemini_analyzer.py: analyze_video (lines 263-365)
\* ------------------------------------------------------------------------
\* Scripts of service answers, one per attempt of a _call_gemini call.
Script(r) == [k \in 1..MAX_API_RETRIES |-> r]
TextAnswer == [kind |-> "text", marks |-> {}]
EmptyAnswer == [kind |-> "empty", marks |-> {}]
ErrorAnswer(m) == [kind |-> "error", marks |-> m]

ServiceScripts ==
    {Script(TextAnswer), Script(EmptyAnswer), Script(ErrorAnswer({"safety"})),
     Script(ErrorAnswer({})),
     [k \in 1..MAX_API_RETRIES |-> IF k <= 3 THEN ErrorAnswer({"429"}) ELSE TextAnswer]}

\* Pass 2 response texts.
GoodData ==
    [workflow_description |-> JStr("Enters invoice lines into the ledger"),
     primary_app |-> JStr("Excel"),
     app_sequence |-> JList("[\"Excel\", \"Outlook\"]"),
     detected_actions |-> JList("[\"data entry\"]"),
     automation_score |-> JNum(60),
     workflow_category |-> JStr("data_entry"),
     sop_step_count |-> JNum(500),
     automation_candidate_count |-> JNum(300),
     top_automation_candidate |-> JStr("Invoice entry")]

JsonText(form, valid, is_object, data) ==
    [form |-> form, valid |-> valid, is_object |-> is_object, data |-> data]

Pass2Texts ==
    {JsonText("json", TRUE, TRUE, GoodData),
     JsonText("fenced", TRUE, TRUE, GoodData),
     JsonText("json", TRUE, TRUE, [GoodData EXCEPT !.automation_score = JNum(10)]),
     JsonText("json", TRUE, TRUE, [primary_app |-> JNull]),
     JsonText("json", TRUE, FALSE, GoodData),
     JsonText("fenced", FALSE, TRUE, GoodData),
     JsonText("garbage", FALSE, FALSE, GoodData)}

EngineEnvs ==
    [configured : BOOLEAN, remote : Remotes, delete_ok : BOOLEAN,
     pass1 : ServiceScripts, pass2 : ServiceScripts, json : Pass2Texts]

\* What one analyze_video call did: how it ended (kind: "result", "None" or
\* "raise"), the result it returned, and what happened to the remote handle.
EngineRecord(kind, q, structured, handle, deleted, p1, p2, t1, t2) ==
    [kind |-> kind, is_useful |-> q.is_useful, rejection_reason |-> q.reason,
     structured |-> structured,
     handle |-> handle, delete_attempted |-> deleted,
     pass1_issued |-> p1, pass2_issued |-> p2, pass1_text |-> t1, pass2_text |-> t2]

NoVerdict == [is_useful |-> FALSE, reason |-> ""]

NoEngine ==
    EngineRecord("none", NoVerdict, empty_structured, FALSE, FALSE, FALSE, FALSE, FALSE, FALSE)

\* The finally clause (lines 359-365): the delete is attempted when the local
\* video_file was assigned, that is when _upload_video returned.
finally_deletes(video_file_assigned) == video_file_assigned

analyze_video(file_exists, env) ==
    IF ~env.configured
    THEN \* _ensure_configured raises ValueError (line 289), outside the try
         EngineRecord("raise", NoVerdict, empty_structured, FALSE, FALSE, FALSE, FALSE, FALSE, FALSE)
    ELSE IF ~file_exists
    THEN EngineRecord("None", NoVerdict, empty_structured, FALSE, FALSE, FALSE, FALSE, FALSE, FALSE)
    ELSE IF env.remote.upload = "raise"
    THEN EngineRecord("raise", NoVerdict, empty_structured, FALSE, FALSE, FALSE, FALSE, FALSE, FALSE)
    ELSE
    LET up == upload_video(env.remote)
    IN  IF up.outcome # "ready"
        THEN EngineRecord(IF up.outcome \in {"TimeoutError", "RuntimeError"} THEN "None" ELSE "raise",
                          NoVerdict, empty_structured, TRUE,
                          up.delete_attempted \/ finally_deletes(FALSE),
                          FALSE, FALSE, FALSE, FALSE)
        ELSE
        LET markdown_text == call_gemini(env.pass1)
        IN  IF markdown_text = None
            THEN EngineRecord("None", NoVerdict, empty_structured, TRUE, finally_deletes(TRUE),
                              TRUE, FALSE, FALSE, FALSE)
            ELSE
            LET json_text == call_gemini(env.pass2)
                parsed == IF json_text # None THEN parse_json_response(env.json)
                          ELSE [raised |-> FALSE, structured |-> empty_structured]
            IN  IF parsed.raised
                THEN EngineRecord("raise", NoVerdict, empty_structured, TRUE, finally_deletes(TRUE),
                                  TRUE, TRUE, TRUE, TRUE)
                ELSE EngineRecord("result", check_analysis_quality(parsed.structured),
                                  parsed.structured, TRUE, finally_deletes(TRUE),
                                  TRUE, TRUE, TRUE, json_text # None)

AnalyzeOutcomes == {analyze_video(TRUE, env) : env \in EngineEnvs}
AnalyzeOutcomesNoFile == {analyze_video(FALSE, env) : env \in EngineEnvs}

\* ------------------------------------------------------------------------
\* frame_extractor.py: get_video_metadata (lines 23-62)
\* ------------------------------------------------------------------------
\* What ffprobe does: exits 0 with a duration (raw, in hundredths of a
\* second), exits 0 with no duration field, exits non-zero, times out,
\* prints no JSON, is not installed, or prints a duration that is no number.
ProbeRuns ==
    {[kind |-> "ok", raw |-> d] : d \in {4, 300, 500, 360000, 400000}}
    \cup {[kind |-> k, raw |-> 0] :
            k \in {"no_duration", "nonzero_exit", "timeout", "bad_json", "missing_tool", "bad_number"}}

Tenths(sec) == sec * 10
Unknown == Tenths(-1)      \* the sentinel -1

\* round(x, 1) of a value in hundredths, in tenths.
Round1(h) == (h + 5) \div 10

get_video_metadata(file_present, run) ==
    IF ~file_present
    THEN [raised |-> TRUE, duration_sec |-> Unknown]       \* os.path.getsize, line 31
    ELSE IF run.kind = "ok"
    THEN [raised |-> FALSE, duration_sec |-> Round1(run.raw)]
    ELSE IF run.kind = "no_duration"
    THEN [raised |-> FALSE, duration_sec |-> Round1(-100)]  \* the default of line 51
    ELSE IF run.kind = "bad_number"
    THEN [raised |-> TRUE, duration_sec |-> Unknown]        \* float() raises ValueError
    ELSE [raised |-> FALSE, duration_sec |-> Unknown]       \* lines 56-62

\* ------------------------------------------------------------------------
\* run_pipeline.py, line 99: the list load_converted_sessions returns
\* ------------------------------------------------------------------------
Videos == 1..NumVideos

\* The discovered list, an input of the run: one VideoRecord per manifest
\* row, each with both paths and its own video_id, in manifest order.
load_converted_sessions == [k \in 1..NumVideos |-> k]

\* ------------------------------------------------------------------------
\* csv_manager.py
\* ------------------------------------------------------------------------
\* load_processed_ids (lines 111-132) and load_rejected_ids (lines 158-174):
\* the ids of the lines read; n is the number of lines read before an
\* OSError ended the loop (all of them when there was none).
load_processed_ids(log, n) == {log[k] : k \in 1..n}

\* (mutant) the rejected ledger is never consulted.
load_rejected_ids_Empty(log, n) == {}

load_rejected_ids(log, n) == {log[k].video_id : k \in 1..n}

\* mark_processed (lines 135-143), mark_rejected (lines 146-155): the line is
\* appended unless the write raises OSError, which is swallowed.
mark_processed(log, video_id, write_ok) ==
    IF write_ok THEN Append(log, video_id) ELSE log

\* (mutant) the line is written without the reason.
mark_rejected_NoReason(log, video_id, reason, write_ok) ==
    IF write_ok THEN Append(log, [video_id |-> video_id, reason |-> ""]) ELSE log

mark_rejected(log, video_id, reason, write_ok) ==
    IF write_ok THEN Append(log, [video_id |-> video_id, reason |-> reason]) ELSE log

\* initialize_csv (lines 100-108): the header, when the file is absent.
HeaderRow == [kind |-> "header", video_id |-> 0, primary_app |-> "primary_app",
              analysis_md_path |-> FALSE]

initialize_csv(csv) == IF csv = <<>> THEN <<HeaderRow>> ELSE csv

\* (mutant) the analysis columns are always read from the structure.
build_row_FromStructured(video_id, gemini_result, gemini_structured, analysis_md_path) ==
    [kind |-> "row", video_id |-> video_id,
     primary_app |-> gemini_structured.primary_app,
     analysis_md_path |-> analysis_md_path]

\* build_row (lines 212-275), with the columns the model tells rows apart by.
\* gemini_result is "result" or None.
build_row(video_id, gemini_result, gemini_structured, analysis_md_path) ==
    [kind |-> "row", video_id |-> video_id,
     primary_app |-> IF gemini_result = None THEN "" ELSE gemini_structured.primary_app,
     analysis_md_path |-> analysis_md_path]

\* append_row (lines 177-209): [file, returned].
append_row(csv, row, write_ok) ==
    IF write_ok
    THEN [csv |-> Append(initialize_csv(csv), row), returned |-> TRUE]
    ELSE [csv |-> initialize_csv(csv), returned |-> FALSE]

\* update_workflow_sessions_status (lines 278-341): the rows after the call.
\* A row without a Status column has Status "".
update_workflow_sessions_status(rows, video_id, status, reason, write_ok) ==
    IF ~write_ok \/ video_id \notin DOMAIN rows THEN rows
    ELSE [v \in DOMAIN rows |->
            IF v = video_id THEN [Status |-> status, RejectionReason |-> reason]
            ELSE IF rows[v].Status = "" THEN [Status |-> "Converted", RejectionReason |-> ""]
            ELSE rows[v]]

\* move_to_misrecordings (lines 29-97): each file that is there is moved,
\* unless its move raises (swallowed).
move_to_misrecordings(present, moved_ok) == present \ moved_ok

\* ------------------------------------------------------------------------
\* run_pipeline.py
\* ------------------------------------------------------------------------
TooShort == "Too short"
TooLong == "Too long"

ArgSets == [dry_run : BOOLEAN, metadata_only : BOOLEAN, limit : {0, 1}]

StatsInit == [total |-> 0, processed |-> 0, skipped |-> 0, rejected |-> 0,
              failed |-> 0, errors |-> <<>>]

LocInit == [video_id |-> 0, duration |-> Unknown, reason |-> "", via |-> "",
            engine |-> NoEngine, engine_calls |-> 0, pass2_failed |-> FALSE,
            gemini_result |-> None, structured |-> empty_structured,
            analysis_md_path |-> FALSE, write_failed |-> FALSE]

\* What a run observed when it started (the ids it loaded, the ids the
\* ledger files held, the videos left to handle), what it has observed since
\* (the videos analyze_video returned None for), how the run before it
\* ended, and the videos some run was working on when its process was killed.
\* engine_gap tells what happened since the run last called analyze_video:
\* "none" (no call yet), "pending" (no inter-video delay since the call) or
\* "delayed" (time.sleep(API_CALL_DELAY_SECONDS) ran since).
\* at_start holds the lengths the dataset and the two ledgers had when the
\* run started: what lies beyond them was appended by the run.
RunInfoInit == [loaded |-> {}, on_disk |-> {}, todo |-> {}, read_error |-> FALSE,
                no_result |-> {}, exit_status |-> 0, report |-> FALSE, killed |-> {},
                engine_gap |-> "none",
                at_start |-> [dataset |-> 0, processed |-> 0, rejected |-> 0],
                prev_no_result |-> {}, prev_read_error |-> FALSE,
                prev_complete |-> FALSE, read_errors |-> 0]

Range(seq) == {seq[k] : k \in 1..Len(seq)}

\* Every discovered video of the run was counted processed, rejected or
\* skipped, and the run did write (no dry run).
run_complete(a, st) ==
    /\ ~a.dry_run
    /\ st.failed = 0
    /\ st.processed + st.rejected + st.skipped = st.total

LogIds(log) == {log[k] : k \in 1..Len(log)}
RejectedIds(log) == {log[k].video_id : k \in 1..Len(log)}
Rows(csv) == SelectSeq(csv, LAMBDA r : r.kind = "row")
RowsOf(csv, v) == Len(SelectSeq(csv, LAMBDA r : r.kind = "row" /\ r.video_id = v))

\* (mutant) the filter of line 116 left out.
unhandled_KeepAll(videos, already_handled) == videos

\* line 116: the videos not already handled, in discovery order.
unhandled(videos, already_handled) ==
    SelectSeq(videos, LAMBDA v : v \notin already_handled)

\* (mutant) the limit taken from the end of the list.
apply_limit_Tail(list, limit) ==
    IF limit > 0 THEN SubSeq(list, Len(list) - Min(limit, Len(list)) + 1, Len(list))
    ELSE list

\* lines 124-125
apply_limit(list, limit) ==
    IF limit > 0 THEN SubSeq(list, 1, Min(limit, Len(list))) ELSE list

\* (mutant) the check without the guard of line 160.
duration_gate_NoSentinel(duration) ==
    IF duration < Tenths(MIN_VIDEO_DURATION_SEC) THEN TooShort
    ELSE IF duration > Tenths(MAX_VIDEO_DURATION_SEC) THEN TooLong
    ELSE ""

\* lines 160-185: what the duration check decides.
duration_gate(duration) ==
    IF duration > 0
    THEN IF duration < Tenths(MIN_VIDEO_DURATION_SEC) THEN TooShort
         ELSE IF duration > Tenths(MAX_VIDEO_DURATION_SEC) THEN TooLong
         ELSE ""
    ELSE ""

\* (mutant) an error string kept without the failure being counted.
count_failed_NoCount(st, tag, video_id) ==
    [st EXCEPT !.errors = Append(@, <<tag, video_id>>)]

\* (mutant) a failure counted without its error string.
count_failed_NoError(st, tag, video_id) == [st EXCEPT !.failed = @ + 1]

\* the statistics after a failure with its error string
count_failed(st, tag, video_id) ==
    [st EXCEPT !.failed = @ + 1, !.errors = Append(@, <<tag, video_id>>)]

\* No function is being applied.
EvalIdle == [fn |-> "none", input |-> None, output |-> None, done |-> FALSE]

\* Nothing has run yet: the files are as the conversion step left them.
NothingRun ==
    /\ dataset = <<>>
    /\ processed_log = <<>>
    /\ rejected_log = <<>>
    /\ sessions = [v \in Videos |-> [Status |-> "", RejectionReason |-> ""]]
    /\ files = [v \in Videos |-> {"source", "mp4"}]
    /\ analyses = {}
    /\ pc = "idle"
    /\ runs = 0
    /\ args = [dry_run |-> FALSE, metadata_only |-> FALSE, limit |-> 0]
    /\ to_process = <<>>
    /\ i = 1
    /\ stats = StatsInit
    /\ loc = LocInit
    /\ run_info = RunInfoInit
    /\ faults = 0
    /\ call = CallInit

Init ==
    /\ NothingRun
    /\ eval = EvalIdle

\* An operation that may hit an I/O error: ok says it did not. Every error
\* is counted against the fault budget of the model.
Faulty(ok) ==
    /\ ok \/ faults < MaxFaults
    /\ faults' = IF ok THEN faults ELSE faults + 1

\* lines 59-127: the ledger loads, the filter and the limit, for the list
\* videos that discovery returned.
StartRunWith(videos) ==
    /\ pc = "idle"
    /\ runs < MaxRuns
    /\ \E a \in ArgSets, np \in 0..Len(processed_log), nr \in 0..Len(rejected_log) :
        LET processed_ids == load_processed_ids(processed_log, np)
            rejected_ids == load_rejected_ids(rejected_log, nr)
            already_handled == processed_ids \cup rejected_ids
            todo == unhandled(videos, already_handled)
        IN  /\ args' = a
            /\ runs' = runs + 1
            /\ stats' = [StatsInit EXCEPT !.total = Len(videos),
                                          !.skipped = Len(videos) - Len(todo)]
            /\ run_info' = [loaded |-> already_handled,
                            on_disk |-> LogIds(processed_log) \cup RejectedIds(rejected_log),
                            todo |-> Range(todo),
                            read_error |-> np < Len(processed_log) \/ nr < Len(rejected_log),
                            no_result |-> {},
                            exit_status |-> 0,
                            report |-> FALSE,
                            killed |-> run_info.killed,
                            engine_gap |-> "none",
                            at_start |-> [dataset |-> Len(dataset),
                                          processed |-> Len(processed_log),
                                          rejected |-> Len(rejected_log)],
                            prev_no_result |-> run_info.no_result,
                            prev_read_error |-> run_info.read_error,
                            prev_complete |-> runs > 0 /\ run_complete(args, stats),
                            read_errors |-> run_info.read_errors +
                                (IF np < Len(processed_log) \/ nr < Len(rejected_log)
                                 THEN 1 ELSE 0)]
            /\ to_process' = IF todo = <<>> THEN <<>> ELSE apply_limit(todo, a.limit)
            /\ pc' = IF videos = <<>> \/ todo = <<>> THEN "exit" ELSE "loop"
            /\ Faulty(np = Len(processed_log) /\ nr = Len(rejected_log))
    /\ i' = 1
    /\ loc' = LocInit
    /\ UNCHANGED <<disk_vars, call, eval>>

\* lines 59-127: a run starts on the list of line 99.
StartRun == StartRunWith(load_converted_sessions)

\* the step to the next iteration
NextVideo ==
    /\ i' = i + 1
    /\ loc' = LocInit
    /\ pc' = "loop"

\* (mutant) the loop head without the dry-run test of line 147.
LoopHead_IgnoreDryRun ==
    /\ pc = "loop"
    /\ IF i > Len(to_process)
       THEN /\ pc' = "exit"
            /\ UNCHANGED <<i, loc, stats>>
       ELSE /\ pc' = "probe"
            /\ loc' = [LocInit EXCEPT !.video_id = to_process[i]]
            /\ UNCHANGED <<i, stats>>
    /\ UNCHANGED <<disk_vars, runs, args, to_process, run_info, faults, call, eval>>

\* lines 130-150 and 269-295: the loop head; a dry run only counts.
LoopHead ==
    /\ pc = "loop"
    /\ IF i > Len(to_process)
       THEN /\ pc' = "exit"
            /\ UNCHANGED <<i, loc, stats>>
       ELSE IF args.dry_run
       THEN /\ stats' = [stats EXCEPT !.processed = @ + 1]
            /\ NextVideo
       ELSE /\ pc' = "probe"
            /\ loc' = [LocInit EXCEPT !.video_id = to_process[i]]
            /\ UNCHANGED <<i, stats>>
    /\ UNCHANGED <<disk_vars, runs, args, to_process, run_info, faults, call, eval>>

\* lines 152-189: the probe and the duration check.
Probe ==
    /\ pc = "probe"
    /\ \E run \in ProbeRuns :
        LET m == get_video_metadata("mp4" \in files[loc.video_id], run)
            verdict == duration_gate(m.duration_sec)
        IN  IF m.raised
            THEN /\ stats' = count_failed(stats, "exception", loc.video_id)
                 /\ NextVideo
            ELSE /\ loc' = [loc EXCEPT !.duration = m.duration_sec, !.reason = verdict,
                                       !.via = IF verdict # "" THEN "duration" ELSE ""]
                 /\ pc' = IF verdict # "" THEN "q_move"
                          ELSE IF args.metadata_only THEN "append" ELSE "analyze"
                 /\ UNCHANGED <<i, stats>>
    /\ UNCHANGED <<disk_vars, runs, args, to_process, run_info, faults, call, eval>>

\* (mutant) no except clause: the exception leaves the loop.
Raises_Abort ==
    /\ faults < MaxFaults
    /\ faults' = faults + 1
    /\ pc' = "exit"
    /\ UNCHANGED <<disk_vars, i, stats, loc>>

\* lines 263-267: a call made for the current video raises (an os.makedirs
\* or an open outside the callee's own try, an error the callee does not
\* catch); the except clause counts a failure and the loop goes on.
Raises ==
    /\ faults < MaxFaults
    /\ faults' = faults + 1
    /\ stats' = count_failed(stats, "exception", loc.video_id)
    /\ NextVideo
    /\ UNCHANGED disk_vars

\* lines 164-168, 177-181, 209-213
MoveToMisrecordings ==
    /\ pc = "q_move"
    /\ \/ /\ \E moved_ok \in SUBSET files[loc.video_id] :
                /\ files' = [files EXCEPT ![loc.video_id] = move_to_misrecordings(@, moved_ok)]
                /\ Faulty(moved_ok = files[loc.video_id])
          /\ pc' = "q_mark"
          /\ UNCHANGED <<dataset, processed_log, rejected_log, sessions, analyses,
                         i, stats, loc>>
       \/ Raises
    /\ UNCHANGED <<runs, args, to_process, run_info, call, eval>>

\* lines 169, 182, 214
MarkRejected ==
    /\ pc = "q_mark"
    /\ \/ /\ \E write_ok \in BOOLEAN :
                /\ rejected_log' = mark_rejected(rejected_log, loc.video_id, loc.reason, write_ok)
                /\ Faulty(write_ok)
                /\ loc' = [loc EXCEPT !.write_failed = ~write_ok]
          /\ pc' = "q_manifest"
          /\ UNCHANGED <<dataset, processed_log, sessions, files, analyses, i, stats>>
       \/ Raises
    /\ UNCHANGED <<runs, args, to_process, run_info, call, eval>>

\* lines 218-220 and 259-261: the inter-video delay, when its condition holds.
Sleep(applies) ==
    run_info' = [run_info EXCEPT !.engine_gap = IF applies THEN "delayed" ELSE @]

\* lines 170-172, 183-185, 215-221
UpdateSessionsRejected ==
    /\ pc = "q_manifest"
    /\ \/ /\ \E write_ok \in BOOLEAN :
                /\ sessions' = update_workflow_sessions_status(sessions, loc.video_id, "Rejected",
                                                               loc.reason, write_ok)
                /\ Faulty(write_ok)
          /\ stats' = [stats EXCEPT !.rejected = @ + 1]
          /\ Sleep(loc.via = "quality" /\ i < Len(to_process))
          /\ NextVideo
          /\ UNCHANGED <<dataset, processed_log, rejected_log, files, analyses>>
       \/ /\ Raises
          /\ UNCHANGED run_info
    /\ UNCHANGED <<runs, args, to_process, call, eval>>

\* lines 190-197: the call of analyze_video.
Analyze ==
    /\ pc = "analyze"
    /\ \E out \in (IF "mp4" \in files[loc.video_id] THEN AnalyzeOutcomes
                   ELSE AnalyzeOutcomesNoFile) :
        loc' = [loc EXCEPT !.engine = out, !.engine_calls = @ + 1]
    /\ run_info' = [run_info EXCEPT !.engine_gap = "pending"]
    /\ pc' = "analyzed"
    /\ UNCHANGED <<disk_vars, runs, args, to_process, i, stats, faults, call, eval>>

\* lines 199-208 and 263-267: what the orchestrator makes of the outcome.
Dispatch ==
    /\ pc = "analyzed"
    /\ IF loc.engine.kind = "raise"
       THEN /\ stats' = count_failed(stats, "exception", loc.video_id)
            /\ NextVideo
       ELSE IF loc.engine.kind = "None"
       THEN /\ stats' = count_failed(stats, "analysis_failed", loc.video_id)
            /\ NextVideo
       ELSE IF ~loc.engine.is_useful
       THEN /\ loc' = [loc EXCEPT !.reason = loc.engine.rejection_reason, !.via = "quality",
                                  !.pass2_failed = ~loc.engine.pass2_text,
                                  !.engine = NoEngine]
            /\ pc' = "q_move"
            /\ UNCHANGED <<i, stats>>
       ELSE /\ loc' = [loc EXCEPT !.gemini_result = "result",
                                  !.structured = loc.engine.structured,
                                  !.engine = NoEngine]
            /\ pc' = "save_md"
            /\ UNCHANGED <<i, stats>>
    /\ run_info' = IF loc.engine.kind = "None"
                   THEN [run_info EXCEPT !.no_result = @ \cup {loc.video_id}]
                   ELSE run_info
    /\ UNCHANGED <<disk_vars, runs, args, to_process, faults, call, eval>>

\* lines 223-237, save_analysis_markdown (csv_manager.py 344-390): the path,
\* or "" when the write raised OSError.
SaveAnalysisMarkdown ==
    /\ pc = "save_md"
    /\ \/ /\ \E write_ok \in BOOLEAN :
                /\ analyses' = IF write_ok THEN analyses \cup {loc.video_id} ELSE analyses
                /\ loc' = [loc EXCEPT !.analysis_md_path = write_ok]
                /\ Faulty(write_ok)
          /\ pc' = "append"
          /\ UNCHANGED <<dataset, processed_log, rejected_log, sessions, files, i, stats>>
       \/ Raises
    /\ UNCHANGED <<runs, args, to_process, run_info, call, eval>>

\* lines 239-249 and 254-256: build_row and append_row.
AppendRow ==
    /\ pc = "append"
    /\ \/ /\ \E write_ok \in BOOLEAN :
                LET row == build_row(loc.video_id, loc.gemini_result, loc.structured,
                                     loc.analysis_md_path)
                    res == append_row(dataset, row, write_ok)
                IN  /\ dataset' = res.csv
                    /\ Faulty(write_ok)
                    /\ IF res.returned
                       THEN /\ pc' = "mark"
                            /\ UNCHANGED <<i, stats, loc>>
                            /\ UNCHANGED run_info
                       ELSE /\ stats' = count_failed(stats, "csv_write_failed", loc.video_id)
                            /\ Sleep(~args.metadata_only /\ i < Len(to_process))
                            /\ NextVideo
          /\ UNCHANGED <<processed_log, rejected_log, sessions, files, analyses>>
       \/ /\ Raises
          /\ UNCHANGED run_info
    /\ UNCHANGED <<runs, args, to_process, call, eval>>

\* line 250
MarkProcessed ==
    /\ pc = "mark"
    /\ \/ /\ \E write_ok \in BOOLEAN :
                /\ processed_log' = mark_processed(processed_log, loc.video_id, write_ok)
                /\ Faulty(write_ok)
                /\ loc' = [loc EXCEPT !.write_failed = ~write_ok]
          /\ pc' = "manifest"
          /\ UNCHANGED <<dataset, rejected_log, sessions, files, analyses, i, stats>>
       \/ Raises
    /\ UNCHANGED <<runs, args, to_process, run_info, call, eval>>

\* lines 251-261
UpdateSessionsAnalyzed ==
    /\ pc = "manifest"
    /\ \/ /\ \E write_ok \in BOOLEAN :
                /\ sessions' = update_workflow_sessions_status(sessions, loc.video_id, "Analyzed",
                                                               "", write_ok)
                /\ Faulty(write_ok)
          /\ stats' = [stats EXCEPT !.processed = @ + 1]
          /\ Sleep(~args.metadata_only /\ i < Len(to_process))
          /\ NextVideo
          /\ UNCHANGED <<dataset, processed_log, rejected_log, files, analyses>>
       \/ /\ Raises
          /\ UNCHANGED run_info
    /\ UNCHANGED <<runs, args, to_process, call, eval>>

\* (mutant) the process always exits 0.
exit_status_Zero(st) == 0

\* main, lines 366-369: sys.exit(1) when a video failed, sys.exit(0) otherwise.
exit_status(st) == IF st.failed > 0 THEN 1 ELSE 0

\* main, line 355: generate_report is called when --report was given and
\* the run was no dry run.
report_generated(report, a) == report /\ ~a.dry_run

\* main, lines 352-369: the report and the exit status; report is the
\* --report flag of the command line.
Exit ==
    /\ pc = "exit"
    /\ \E report \in BOOLEAN :
        run_info' = [run_info EXCEPT !.exit_status = exit_status(stats),
                                     !.report = report_generated(report, args)]
    /\ pc' = "idle"
    /\ UNCHANGED <<disk_vars, runs, args, to_process, i, stats, loc, faults, call, eval>>

Next ==
    \/ StartRun
    \/ LoopHead
    \/ Probe
    \/ MoveToMisrecordings
    \/ MarkRejected
    \/ UpdateSessionsRejected
    \/ Analyze
    \/ Dispatch
    \/ SaveAnalysisMarkdown
    \/ AppendRow
    \/ MarkProcessed
    \/ UpdateSessionsAnalyzed
    \/ Exit

Spec == Init /\ [][Next]_vars

\* The interpreter runs the loop on: a run that can take a step takes one.
SpecFair == Spec /\ WF_vars(Next)

\* The process is killed while it works on a video, between two of its
\* operations (run_pipeline.py 152-261): what is on disk stays, the run has
\* no summary and no exit status of its own. A kill is counted against the
\* fault budget like an I/O error.
Kill ==
    /\ pc \in {"probe", "q_move", "q_mark", "q_manifest", "analyze", "analyzed",
               "save_md", "append", "mark", "manifest"}
    /\ faults < MaxFaults
    /\ faults' = faults + 1
    /\ run_info' = [run_info EXCEPT !.killed = @ \cup {loc.video_id}]
    /\ pc' = "idle"
    /\ loc' = LocInit
    /\ UNCHANGED <<disk_vars, runs, args, to_process, i, stats, call, eval>>

NextCrash == Next \/ Kill

SpecCrash == Init /\ [][NextCrash]_vars

\* ---- runs over any conversion record, the same path listed twice included
\* The conversion records of NumVideos rows: each row names the source path
\* of one of the videos, and two rows may name the same one. The paths are
\* numbered in the order in which the record first names them.
ConversionRecords ==
    {record \in [1..NumVideos -> Videos] :
        \A k \in 1..NumVideos :
            record[k] <= 1 + Cardinality({record[l] : l \in 1..k - 1})}

\* video_id of a record: the hash of its source path, one id per path
\* (collisions are assumed away), so a path stands for its id.
video_id_of(source_path) == source_path

\* Discovery: one VideoRecord per row of the conversion record, in its
\* order, each with the id of its source path; nothing is dropped.
discover(record) == [k \in 1..Len(record) |-> video_id_of(record[k])]

\* lines 59-127: a run starts on what discovery made of the record.
StartRunListed == \E record \in ConversionRecords : StartRunWith(discover(record))

NextListed ==
    \/ StartRunListed
    \/ LoopHead
    \/ Probe
    \/ MoveToMisrecordings
    \/ MarkRejected
    \/ UpdateSessionsRejected
    \/ Analyze
    \/ Dispatch
    \/ SaveAnalysisMarkdown
    \/ AppendRow
    \/ MarkProcessed
    \/ UpdateSessionsAnalyzed
    \/ Exit

SpecListed == Init /\ [][NextListed]_vars

\* ---- the attempt-by-attempt machine
CallAttempt ==
    /\ call.status = "running"
    /\ call.calls <= MAX_API_RETRIES
    /\ \E r \in Responses : call' = CallStep(call, r)
    /\ UNCHANGED <<disk_vars, run_vars, eval>>

NextCall == CallAttempt

SpecCall == Init /\ [][NextCall]_vars

\* ---- _check_analysis_quality applied to one structure
\* The structures the gate is applied to: every combination of these values
\* of the four fields it reads.
QualityApps == {"", "Unknown", "N/A", "None", "  ", " Unknown ", "unknown", "Excel", " Excel "}
QualitySteps == {0 - 1, 0, 1, 5}
QualityScores == {0, 29, 30, 60, 100}
QualityDescriptions ==
    {"", "   ", "Enters invoice rows", "Enters invoice lines",
     "  Enters invoice rows  ", " Enters invoice lines into the ledger "}

QualityInputs ==
    {[empty_structured EXCEPT !.primary_app = a, !.sop_step_count = n,
                              !.automation_score = sc, !.workflow_description = d] :
        a \in QualityApps, n \in QualitySteps, sc \in QualityScores,
        d \in QualityDescriptions}

InitQuality ==
    /\ NothingRun
    /\ eval \in {[fn |-> "check_analysis_quality", input |-> st, output |-> NoVerdict,
                  done |-> FALSE] : st \in QualityInputs}

CheckQuality ==
    /\ eval.fn = "check_analysis_quality"
    /\ ~eval.done
    /\ eval' = [eval EXCEPT !.output = check_analysis_quality(eval.input), !.done = TRUE]
    /\ UNCHANGED <<disk_vars, run_vars, call>>

NextQuality == CheckQuality

SpecQuality == InitQuality /\ [][NextQuality]_vars

\* ------------------------------------------------------------------------
\* get_video_metadata applied to one file and one run of ffprobe
\* ------------------------------------------------------------------------
\* round(file_size_bytes / (1024 * 1024), 2), in hundredths of a megabyte
\* (lines 31-32).
file_size_mb(file_size_bytes) == (file_size_bytes * 100 + 524288) \div 1048576

ProbeSizes == {0, 5243, 1048576, 3145728}

\* The runs of ffprobe, with durations on both sides of every rounding and
\* gate boundary.
ProbeEvalRuns ==
    {[kind |-> "ok", raw |-> d] :
        d \in {-100, 0, 4, 44, 45, 300, 499, 500, 360000, 360004, 360005, 400000}}
    \cup {r \in ProbeRuns : r.kind # "ok"}

ProbeInputs ==
    [file_present : BOOLEAN, file_size_bytes : ProbeSizes, run : ProbeEvalRuns]

NoMetadata == [raised |-> FALSE, duration_sec |-> Unknown, file_size_mb |-> 0]

InitProbe ==
    /\ NothingRun
    /\ eval \in {[fn |-> "get_video_metadata", input |-> in, output |-> NoMetadata,
                  done |-> FALSE] : in \in ProbeInputs}

\* the call: the size read of line 31 raises when the file is not there, and
\* nothing is returned when the function raises
GetVideoMetadata ==
    /\ eval.fn = "get_video_metadata"
    /\ ~eval.done
    /\ LET m == get_video_metadata(eval.input.file_present, eval.input.run)
       IN  eval' = [eval EXCEPT
                      !.output = [raised |-> m.raised,
                                  duration_sec |-> m.duration_sec,
                                  file_size_mb |-> IF m.raised THEN 0
                                                   ELSE file_size_mb(eval.input.file_size_bytes)],
                      !.done = TRUE]
    /\ UNCHANGED <<disk_vars, run_vars, call>>

NextProbe == GetVideoMetadata

SpecProbe == InitProbe /\ [][NextProbe]_vars

\* ------------------------------------------------------------------------
\* _parse_json_response applied to one Pass 2 response text
\* ------------------------------------------------------------------------
\* Raw automation_score values: numbers below, in and above the range,
\* numeric and other texts, null, a list, a boolean, the special floats.
ParseScores ==
    {JNum(-50), JNum(0), JNum(37), JNum(100), JNum(150),
     JStr("0.5"), JStr("1.7"), JStr("-2"), JStr("high"), JStr(""), JStr("nan"),
     JNull, JList("[]"), JBool(TRUE), JBool(FALSE),
     JSpecial("inf"), JSpecial("-inf"), JSpecial("nan")}

\* Raw step counts.
ParseCounts == {JNum(500), JNum(250), JStr("7"), JStr("many"), JNull, JSpecial("inf")}

\* JSON objects: all nine fields, some of them, none of them.
ParseObjects ==
    {[GoodData EXCEPT !.automation_score = sc, !.sop_step_count = n] :
        sc \in ParseScores, n \in ParseCounts}
    \cup {[primary_app |-> JStr("Excel"), automation_score |-> sc] : sc \in ParseScores}
    \cup {[primary_app |-> JStr("Excel")], [note |-> JStr("no known field")]}

\* Response texts: an object as plain JSON or inside a fence, valid JSON that
\* is no object, a fence around invalid JSON, and no JSON at all.
ParseTexts ==
    {JsonText(form, TRUE, TRUE, d) : form \in {"json", "fenced"}, d \in ParseObjects}
    \cup {JsonText("json", TRUE, FALSE, GoodData),
          JsonText("fenced", FALSE, TRUE, GoodData),
          JsonText("garbage", FALSE, FALSE, GoodData)}

NotParsed == [raised |-> FALSE, structured |-> empty_structured]

InitParse ==
    /\ NothingRun
    /\ eval \in {[fn |-> "parse_json_response", input |-> text, output |-> NotParsed,
                  done |-> FALSE] : text \in ParseTexts}

ParseJsonResponse ==
    /\ eval.fn = "parse_json_response"
    /\ ~eval.done
    /\ eval' = [eval EXCEPT !.output = parse_json_response(eval.input), !.done = TRUE]
    /\ UNCHANGED <<disk_vars, run_vars, call>>

NextParse == ParseJsonResponse

SpecParse == InitParse /\ [][NextParse]_vars

\* ------------------------------------------------------------------------
\* update_workflow_sessions_status applied to one manifest file
\* ------------------------------------------------------------------------
\* A manifest file: its header ("none": no Status column, "status_only":
\* Status without RejectionReason, "both") and its rows. A row has the id
\* recomputed from its paths (lines 313-319), another column (user), its
\* status cells ("" where the header has no such column) and extra tells
\* that it has more cells than the header (csv.DictReader files them under
\* the key None).
ManifestHeaders == {"none", "status_only", "both"}

ManifestRowsOf(h) ==
    {[id |-> v, user |-> u, Status |-> st, RejectionReason |-> rr, extra |-> x] :
        v \in 1..2, u \in {"ann", "bob"},
        st \in (IF h = "none" THEN {""} ELSE {"Converted", "Rejected"}),
        rr \in (IF h = "both" THEN {"", "Too long"} ELSE {""}),
        x \in BOOLEAN}

MaxManifestRows == 2    \* rows of a manifest file

ManifestTables ==
    UNION {{[header |-> h, rows |-> rs] :
              rs \in UNION {[1..n -> {r \in ManifestRowsOf(h) :
                                        r.RejectionReason = "" \/ r.Status = "Rejected"}] :
                              n \in 0..MaxManifestRows}} :
           h \in ManifestHeaders}

\* How the file system answers: every call works, the open for reading
\* raises OSError, the open for writing raises OSError, or a write raises
\* OSError after the header went out.
ManifestIo == {"ok", "read_fails", "open_w_fails", "write_fails"}

\* lines 302-307: a header without Status gets both columns, and every row
\* the defaults.
with_status_columns(table) ==
    IF table.header # "none" THEN table
    ELSE [header |-> "both",
          rows |-> [k \in DOMAIN table.rows |->
                      [table.rows[k] EXCEPT !.Status = "Converted", !.RejectionReason = ""]]]

\* lines 310-324: the rows after the update of the matching ones.
set_status(rows, video_id, status, reason) ==
    [k \in DOMAIN rows |->
        IF rows[k].id = video_id
        THEN [rows[k] EXCEPT !.Status = status, !.RejectionReason = reason]
        ELSE rows[k]]

\* csv.DictWriter raises ValueError for a row that has a key outside
\* fieldnames: the key None of extra cells, or the RejectionReason that
\* line 323 sets when the header has Status only.
unwritable(header, row, video_id) ==
    row.extra \/ (header = "status_only" /\ row.id = video_id)

\* lines 278-341: the file after the call, what the call returned, and
\* whether it raised. The file is opened with "w", so what was not written
\* again is gone.
update_sessions_csv(table, video_id, status, reason, io) ==
    LET t == with_status_columns(table)
        rows == set_status(t.rows, video_id, status, reason)
        updated == \E k \in DOMAIN t.rows : t.rows[k].id = video_id
        bad == {k \in DOMAIN rows : unwritable(t.header, rows[k], video_id)}
        first_bad == CHOOSE k \in bad : \A j \in bad : k <= j
    IN  IF io = "read_fails" \/ ~updated \/ io = "open_w_fails"
        THEN [table |-> table, returned |-> FALSE, raised |-> FALSE]
        ELSE IF io = "write_fails"
        THEN [table |-> [header |-> t.header, rows |-> <<>>],
              returned |-> FALSE, raised |-> FALSE]
        ELSE IF bad # {}
        THEN [table |-> [header |-> t.header, rows |-> SubSeq(rows, 1, first_bad - 1)],
              returned |-> FALSE, raised |-> TRUE]
        ELSE [table |-> [header |-> t.header, rows |-> rows],
              returned |-> TRUE, raised |-> FALSE]

ManifestInputs ==
    [table : ManifestTables, video_id : 1..2, status : {"Rejected", "Analyzed"},
     io : ManifestIo]

NoUpdate == [table |-> [header |-> "none", rows |-> <<>>], returned |-> FALSE,
             raised |-> FALSE]

InitManifest ==
    /\ NothingRun
    /\ eval \in {[fn |-> "update_workflow_sessions_status", input |-> in,
                  output |-> NoUpdate, done |-> FALSE] : in \in ManifestInputs}

UpdateManifest ==
    /\ eval.fn = "update_workflow_sessions_status"
    /\ ~eval.done
    /\ eval' = [eval EXCEPT
                  !.output = update_sessions_csv(eval.input.table, eval.input.video_id,
                                                 eval.input.status,
                                                 IF eval.input.status = "Rejected"
                                                 THEN TooShort ELSE "",
                                                 eval.input.io),
                  !.done = TRUE]
    /\ UNCHANGED <<disk_vars, run_vars, call>>

NextManifest == UpdateManifest

SpecManifest == InitManifest /\ [][NextManifest]_vars

\* ------------------------------------------------------------------------
\* load_processed_ids and load_rejected_ids applied to one ledger file
\* ------------------------------------------------------------------------
MaxLedgerLines == 3    \* lines of a ledger file

LedgerFiles ==
    UNION {[1..n -> Videos] : n \in 0..MaxLedgerLines}

\* How the read goes: to the end ("ok"), an OSError after `lines` lines came
\* out (0: at the open), or a line that is no UTF-8, for which the file
\* iterator raises UnicodeDecodeError.
LedgerReads(log) ==
    {[kind |-> "ok", lines |-> Len(log)]}
    \cup {[kind |-> k, lines |-> n] : k \in {"OSError", "UnicodeDecodeError"},
                                     n \in 0..Len(log)}

LedgerLoaders == {"load_processed_ids", "load_rejected_ids"}

\* A ledger file that is there, with its lines and the way its read goes,
\* or no file at all.
LedgerInputs ==
    UNION {{[loader |-> l, present |-> TRUE, log |-> log, read |-> r] :
              l \in LedgerLoaders, r \in LedgerReads(log)} : log \in LedgerFiles}
    \cup {[loader |-> l, present |-> FALSE, log |-> <<>>,
           read |-> [kind |-> "ok", lines |-> 0]] : l \in LedgerLoaders}

\* the lines of a rejected ledger carry a reason after the id
AsRejectedLog(log) == [k \in DOMAIN log |-> [video_id |-> log[k], reason |-> TooShort]]

\* lines 111-132 and 158-174: the set returned, or the exception that the
\* except OSError clause lets through.
load_ids(loader, present, log, read) ==
    IF ~present
    THEN [raised |-> FALSE, ids |-> {}]
    ELSE IF read.kind = "UnicodeDecodeError"
    THEN [raised |-> TRUE, ids |-> {}]
    ELSE [raised |-> FALSE,
          ids |-> IF loader = "load_processed_ids"
                  THEN load_processed_ids(log, read.lines)
                  ELSE load_rejected_ids(AsRejectedLog(log), read.lines)]

NotLoaded == [raised |-> FALSE, ids |-> {}]

InitLoad ==
    /\ NothingRun
    /\ eval \in {[fn |-> "load_ids", input |-> in, output |-> NotLoaded, done |-> FALSE] :
                    in \in LedgerInputs}

LoadIds ==
    /\ eval.fn = "load_ids"
    /\ ~eval.done
    /\ eval' = [eval EXCEPT
                  !.output = load_ids(eval.input.loader, eval.input.present,
                                      eval.input.log, eval.input.read),
                  !.done = TRUE]
    /\ UNCHANGED <<disk_vars, run_vars, call>>

NextLoad == LoadIds

SpecLoad == InitLoad /\ [][NextLoad]_vars

\* ------------------------------------------------------------------------
\* gemini_analyzer.py: _upload_video step by step (lines 177-209) and what
\* analyze_video does with its outcome (lines 300-301 and 355-365)
\* ------------------------------------------------------------------------
\* What the File API may answer to files.upload and files.get: a handle in
\* one of these states, or an exception ("raise").
RemoteStates == {"PROCESSING", "ACTIVE", "FAILED"}
RemoteAnswers == RemoteStates \cup {"raise"}

\* The call's position (at: "upload", "while", "ended", then inside
\* analyze_video "pass1", "pass2" or "returned"), the state last read from the
\* handle, the local elapsed, the number of files.get re-checks and of
\* files.delete attempts, whether a delete raised, how _upload_video ended
\* (outcome) and what analyze_video made of it.
UploadInit ==
    [at |-> "upload", state |-> "", elapsed |-> 0, checks |-> 0, deletes |-> 0,
     delete_raised |-> FALSE, outcome |-> "", video_file |-> FALSE,
     pass1_issued |-> FALSE, pass1_text |-> FALSE, pass2_issued |-> FALSE,
     returns |-> ""]

\* line 186: client.files.upload; line 189: elapsed = 0
files_upload(p, answer) ==
    IF answer = "raise"
    THEN [p EXCEPT !.at = "ended", !.outcome = "raised"]
    ELSE [p EXCEPT !.at = "while", !.state = answer, !.elapsed = 0]

\* (mutant) a delete error that is not swallowed.
upload_timed_out_NoSwallow(p, delete_ok) ==
    [p EXCEPT !.at = "ended", !.deletes = @ + 1, !.delete_raised = ~delete_ok,
              !.outcome = IF delete_ok THEN "TimeoutError" ELSE "raised"]

\* lines 192-200: the delete, its error swallowed, then raise TimeoutError
upload_timed_out(p, delete_ok) ==
    [p EXCEPT !.at = "ended", !.deletes = @ + 1, !.delete_raised = ~delete_ok,
              !.outcome = "TimeoutError"]

\* (mutant) the re-check without line 202.
poll_recheck_NoElapsed(p, answer) ==
    IF answer = "raise"
    THEN [p EXCEPT !.at = "ended", !.outcome = "raised", !.checks = @ + 1]
    ELSE [p EXCEPT !.state = answer, !.checks = @ + 1]

\* lines 201-203: sleep, elapsed += VIDEO_UPLOAD_POLL_INTERVAL, files.get
poll_recheck(p, answer) ==
    IF answer = "raise"
    THEN [p EXCEPT !.at = "ended", !.outcome = "raised", !.checks = @ + 1,
                   !.elapsed = @ + VIDEO_UPLOAD_POLL_INTERVAL]
    ELSE [p EXCEPT !.state = answer, !.checks = @ + 1,
                   !.elapsed = @ + VIDEO_UPLOAD_POLL_INTERVAL]

\* lines 205-209: after the loop
upload_ends(p) ==
    [p EXCEPT !.at = "ended",
              !.outcome = IF p.state = "FAILED" THEN "RuntimeError" ELSE "ready"]

\* analyze_video, line 300 (video_file is assigned only when _upload_video
\* returns, and Pass 1 is next), lines 355-357 (the except clause) and
\* lines 359-365 (the finally clause, its own delete).
analyze_video_handles(p) ==
    IF p.outcome = "ready"
    THEN [p EXCEPT !.at = "pass1", !.video_file = TRUE]
    ELSE [p EXCEPT !.at = "returned",
                   !.returns = IF p.outcome \in {"TimeoutError", "RuntimeError"}
                               THEN "None" ELSE "raise",
                   !.deletes = IF finally_deletes(p.video_file) THEN @ + 1 ELSE @]

\* (mutant) Pass 2 follows Pass 1 whatever Pass 1 returned.
after_pass1_NoCheck(p, markdown_text) ==
    [p EXCEPT !.at = "pass2", !.pass1_issued = TRUE,
              !.pass1_text = markdown_text # None]

\* lines 303-314: the Pass 1 call and the test of its text; a return goes
\* through the finally clause (lines 359-365).
after_pass1(p, markdown_text) ==
    IF markdown_text = None
    THEN [p EXCEPT !.at = "returned", !.pass1_issued = TRUE, !.returns = "None",
                   !.deletes = IF finally_deletes(p.video_file) THEN @ + 1 ELSE @]
    ELSE [p EXCEPT !.at = "pass2", !.pass1_issued = TRUE, !.pass1_text = TRUE]

\* lines 318-353: the Pass 2 call, the parse of its text (which may raise)
\* and the return of the result through the finally clause.
after_pass2(p, json_text, parsed) ==
    [p EXCEPT !.at = "returned", !.pass2_issued = TRUE,
              !.returns = IF json_text # None /\ parsed.raised THEN "raise" ELSE "result",
              !.deletes = IF finally_deletes(p.video_file) THEN @ + 1 ELSE @]

InitUpload ==
    /\ NothingRun
    /\ eval = [fn |-> "_upload_video", input |-> None, output |-> UploadInit,
               done |-> FALSE]

FilesUpload ==
    /\ eval.fn = "_upload_video"
    /\ eval.output.at = "upload"
    /\ \E answer \in RemoteAnswers :
        eval' = [eval EXCEPT !.output = files_upload(@, answer)]
    /\ UNCHANGED <<disk_vars, run_vars, call>>

\* lines 190-209: one test of the loop condition with what follows it
PollLoop ==
    /\ eval.fn = "_upload_video"
    /\ eval.output.at = "while"
    /\ IF eval.output.state = "PROCESSING"
       THEN IF eval.output.elapsed >= VIDEO_UPLOAD_TIMEOUT
            THEN \E delete_ok \in BOOLEAN :
                    eval' = [eval EXCEPT !.output = upload_timed_out(@, delete_ok)]
            ELSE \E answer \in RemoteAnswers :
                    eval' = [eval EXCEPT !.output = poll_recheck(@, answer)]
       ELSE eval' = [eval EXCEPT !.output = upload_ends(@)]
    /\ UNCHANGED <<disk_vars, run_vars, call>>

AnalyzeVideoHandles ==
    /\ eval.fn = "_upload_video"
    /\ eval.output.at = "ended"
    /\ eval' = [eval EXCEPT !.output = analyze_video_handles(@)]
    /\ UNCHANGED <<disk_vars, run_vars, call>>

Pass1 ==
    /\ eval.fn = "_upload_video"
    /\ eval.output.at = "pass1"
    /\ \E script \in ServiceScripts :
        eval' = [eval EXCEPT !.output = after_pass1(@, call_gemini(script))]
    /\ UNCHANGED <<disk_vars, run_vars, call>>

Pass2 ==
    /\ eval.fn = "_upload_video"
    /\ eval.output.at = "pass2"
    /\ \E script \in ServiceScripts, text \in Pass2Texts :
        eval' = [eval EXCEPT !.output =
                    after_pass2(@, call_gemini(script), parse_json_response(text))]
    /\ UNCHANGED <<disk_vars, run_vars, call>>

NextUpload ==
    \/ FilesUpload
    \/ PollLoop
    \/ AnalyzeVideoHandles
    \/ Pass1
    \/ Pass2

SpecUpload == InitUpload /\ [][NextUpload]_vars

\* The interpreter runs the call on: files.upload, files.get, files.delete
\* and time.sleep take their time and come back.
SpecUploadFair == SpecUpload /\ WF_vars(NextUpload)

\* ------------------------------------------------------------------------
\* csv_manager.py: initialize_csv and append_row on the dataset file, call
\* by call (lines 100-108 and 177-209)
\* ------------------------------------------------------------------------
MaxAppends == 3     \* append_row calls on one dataset file

\* config.py, lines 136-164: three of the 22 columns, in schema order.
CSV_COLUMNS == <<"video_id", "primary_app", "processed_at">>

\* The dictionaries append_row is called with: complete, with a None value
\* and no processed_at, with a missing key and a key that is no column.
RowDatas ==
    {[video_id |-> "v1", primary_app |-> "Excel", processed_at |-> "t0"],
     [video_id |-> "v2", primary_app |-> None],
     [video_id |-> "v3", extra |-> "x"]}

\* What the file system does during one call: nothing special, the header
\* write of initialize_csv fails after open(csv_path, "w") created the
\* file, or the append fails.
DatasetIo == {"ok", "header_write_fails", "append_fails"}

\* The dataset file (absent, or its lines), the calls made, what the last
\* call did and whether a header write has failed.
DatasetInit ==
    [exists |-> FALSE, lines |-> <<>>, calls |-> 0, returned |-> "",
     header_failed |-> FALSE]

\* datetime.now().isoformat(timespec="seconds")
Now == "now"

\* lines 194-200: the row in column order; the key processed_at is set when
\* missing, any other missing key and a None value give the empty string.
csv_row(row_data) ==
    LET with_time == IF "processed_at" \in DOMAIN row_data THEN row_data
                     ELSE [k \in DOMAIN row_data \cup {"processed_at"} |->
                             IF k = "processed_at" THEN Now ELSE row_data[k]]
    IN  [c \in 1..Len(CSV_COLUMNS) |->
            IF CSV_COLUMNS[c] \in DOMAIN with_time
                /\ with_time[CSV_COLUMNS[c]] # None
            THEN with_time[CSV_COLUMNS[c]] ELSE ""]

\* lines 100-108: nothing when os.path.isfile; else open(..., "w") creates
\* the file and the header is written, an OSError of the write propagating.
initialize_csv_file(file, write_ok) ==
    IF file.exists THEN [raised |-> FALSE, exists |-> TRUE, lines |-> file.lines]
    ELSE IF write_ok THEN [raised |-> FALSE, exists |-> TRUE, lines |-> <<CSV_COLUMNS>>]
    ELSE [raised |-> TRUE, exists |-> TRUE, lines |-> <<>>]

\* lines 177-209: one append_row call; it returns True or False, or raises
\* what initialize_csv raised.
append_row_file(file, row_data, io) ==
    LET init == initialize_csv_file(file, io # "header_write_fails")
        called == [file EXCEPT !.calls = @ + 1, !.exists = init.exists,
                               !.lines = init.lines]
    IN  IF init.raised
        THEN [called EXCEPT !.returned = "raised", !.header_failed = TRUE]
        ELSE IF io = "append_fails"
        THEN [called EXCEPT !.returned = "False"]
        ELSE [called EXCEPT !.returned = "True",
                            !.lines = Append(@, csv_row(row_data))]

InitDataset ==
    /\ NothingRun
    /\ eval = [fn |-> "append_row", input |-> None, output |-> DatasetInit,
               done |-> FALSE]

AppendRowCall ==
    /\ eval.fn = "append_row"
    /\ eval.output.calls < MaxAppends
    /\ \E row_data \in RowDatas, io \in DatasetIo :
        eval' = [eval EXCEPT !.input = row_data,
                             !.output = append_row_file(@, row_data, io)]
    /\ UNCHANGED <<disk_vars, run_vars, call>>

NextDataset == AppendRowCall

SpecDataset == InitDataset /\ [][NextDataset]_vars

\* ------------------------------------------------------------------------
\* Properties
\* ------------------------------------------------------------------------
\* The positions at which the loop holds a video it is working on.
IterationPcs == {"probe", "q_move", "q_mark", "q_manifest", "analyze", "analyzed",
                 "save_md", "append", "mark", "manifest"}

LedgerLines(v) ==
    Len(SelectSeq(processed_log, LAMBDA id : id = v))
    + Len(SelectSeq(rejected_log, LAMBDA e : e.video_id = v))

\* What a step leaves alone for the videos the run skips.
SkippedFrame ==
    pc \in IterationPcs =>
        \A v \in run_info.loaded :
            /\ files'[v] = files[v]
            /\ RowsOf(dataset', v) = RowsOf(dataset, v)
            /\ LedgerLines(v)' = LedgerLines(v)

\* C1 (as the code has it): a video whose id is in the sets load_processed_ids
\* and load_rejected_ids returned at the start of the run is never in the list
\* the loop iterates over, so it is never the video an operation works on; the
\* run leaves its files, its dataset rows and its ledger lines as they were,
\* and stats.skipped counts exactly these videos.
C1_SkippedUntouched ==
    /\ [](/\ \A k \in 1..Len(to_process) : to_process[k] \notin run_info.loaded
          /\ (pc \in IterationPcs => /\ loc.video_id \in Range(to_process)
                                     /\ loc.video_id \notin run_info.loaded)
          /\ (pc # "idle" => stats.skipped = Cardinality(run_info.loaded)))
    /\ [][SkippedFrame]_vars

\* C1 witness: a run that skips one video while it works on another one.
C1_Witness ==
    /\ pc = "analyzed"
    /\ run_info.loaded # {}
    /\ stats.skipped = 1
    /\ loc.video_id \notin run_info.loaded

\* C1 as stated: a video whose id is in a ledger file when the run starts is
\* never the video an operation of the run works on.
C1_InLedgerNeverHandled ==
    pc \in IterationPcs => loc.video_id \notin run_info.on_disk

\* C2: when the run before ended with every discovered video counted
\* processed, rejected or skipped, and the ledgers are read without error, the
\* run has nothing to process.
C2_IdempotentRerun ==
    (run_info.prev_complete /\ ~run_info.read_error) => to_process = <<>>

\* C3: every video_id is in at most one row of the dataset (ledger reads
\* without error).
C3_AtMostOneRow ==
    run_info.read_errors = 0 => \A v \in Videos : RowsOf(dataset, v) <= 1

\* C4: in full-analysis mode, when mark_processed is about to be called the
\* row of the video has been appended and its markdown artifact was written.
C4_PersistBeforeMark ==
    (pc = "mark" /\ ~args.metadata_only) =>
        /\ RowsOf(dataset, loc.video_id) >= 1
        /\ loc.analysis_md_path
        /\ loc.video_id \in analyses

\* The step that handles a None from analyze_video.
NoResultStep ==
    (pc = "analyzed" /\ loc.engine.kind = "None") =>
        /\ UNCHANGED disk_vars
        /\ stats'.failed = stats.failed + 1
        /\ Len(stats'.errors) = Len(stats.errors) + 1
        /\ stats'.processed = stats.processed
        /\ stats'.rejected = stats.rejected
        /\ pc' = "loop"

\* C5 (as the code has it): when analyze_video returns None the step that
\* handles it changes nothing on disk, counts one failure with one error
\* string and goes on to the next video; and if the ledgers had been read
\* without error, the video is in neither ledger, so the next run has it among
\* the videos left to handle.
C5_NoResultLeavesNoTrace ==
    /\ []((pc = "analyzed" /\ loc.engine.kind = "None" /\ ~run_info.read_error)
            => loc.video_id \notin LogIds(processed_log) \cup RejectedIds(rejected_log))
    /\ [](~run_info.prev_read_error => run_info.prev_no_result \subseteq run_info.todo)
    /\ [][NoResultStep]_vars

\* C5 witness: the run after one in which analyze_video returned None.
C5_Witness ==
    /\ run_info.prev_no_result # {}
    /\ ~run_info.prev_read_error
    /\ pc = "probe"
    /\ loc.video_id \in run_info.prev_no_result

\* C5 as stated: every video analyze_video returned None for is among the
\* videos the next run selects.
C5_ReselectedNextRun ==
    run_info.prev_no_result \subseteq run_info.todo

\* C6: a video whose probed duration is known (not the sentinel) and below
\* the minimum or above the maximum never reaches the analysis engine.
C6_DurationGate ==
    (pc \in {"analyze", "analyzed"} /\ loc.duration # Unknown) =>
        /\ loc.duration >= Tenths(MIN_VIDEO_DURATION_SEC)
        /\ loc.duration <= Tenths(MAX_VIDEO_DURATION_SEC)

\* The probe step of a video whose duration comes out as the sentinel.
SentinelStep ==
    (pc = "probe" /\ pc' # "loop" /\ loc'.duration = Unknown) =>
        /\ pc' = IF args.metadata_only THEN "append" ELSE "analyze"
        /\ loc'.reason = ""

\* C7: when the probe gives the sentinel duration the video is not
\* quarantined for its duration: it goes to the analysis engine, or to the
\* row append in metadata-only mode.
C7_SentinelSkipsGate ==
    /\ []((pc \in {"q_move", "q_mark", "q_manifest"} /\ loc.via = "duration")
            => loc.duration # Unknown)
    /\ [][SentinelStep]_vars

\* C7 witness: a video with the sentinel duration at the analysis engine.
C7_Witness ==
    /\ pc = "analyze"
    /\ loc.video_id # 0
    /\ loc.duration = Unknown

\* analyze_video ended with Pass 1 text and no Pass 2 text.
Pass2Failed ==
    /\ pc = "analyzed"
    /\ loc.engine.pass1_text
    /\ loc.engine.pass2_issued
    /\ ~loc.engine.pass2_text

\* The steps that hand such a video to quarantine and count it.
Pass2FailedDispatch == Pass2Failed => (loc'.pass2_failed /\ stats' = stats)

\* (a step of the quarantine that raises is the subject of C14)
Pass2FailedCounted ==
    (pc = "q_manifest" /\ loc.pass2_failed /\ stats'.errors = stats.errors) =>
        /\ stats'.rejected = stats.rejected + 1
        /\ stats'.failed = stats.failed

C9_HandleDeleted ==
    (pc = "analyzed" /\ loc.engine.handle) => loc.engine.delete_attempted

\* C10: _call_gemini invokes generate_content at most MAX_API_RETRIES times
\* and has returned once it has done so; it never raises; and when every
\* attempt ended in a rate limit, another error or an empty response it has
\* made all MAX_API_RETRIES attempts and returns None.
Retryable == {"rate_limit", "other", "empty"}

C10_CallTerminates ==
    /\ call.calls <= MAX_API_RETRIES
    /\ call.calls = Len(call.log)
    /\ call.status \in {"running", "returned"}
    /\ (call.status = "running" => call.calls < MAX_API_RETRIES)
    /\ ((call.status = "returned" /\ Range(call.log) \subseteq Retryable)
            => (call.result = None /\ call.calls = MAX_API_RETRIES))

\* C10 witness: a call that returned after MAX_API_RETRIES failed attempts
\* of all three retryable kinds.
C10_Witness ==
    /\ call.status = "returned"
    /\ call.calls = MAX_API_RETRIES
    /\ Range(call.log) = Retryable

\* The log of a call whose first k attempts were rate-limited and whose next
\* attempt returned text.
RateLimitedThenText(k) == [j \in 1..(k + 1) |-> IF j <= k THEN "rate_limit" ELSE "text"]

\* C11: a call whose first k < MAX_API_RETRIES attempts hit the rate limit
\* and whose attempt k+1 returned text returns the text after exactly k+1
\* attempts, and its waits are 10 * 2^(j-1) seconds for j = 1..k (10, 20, 40
\* for k = 3).
C11_ExponentialBackoff ==
    /\ \A k \in 0..(MAX_API_RETRIES - 1) :
        (call.status = "returned" /\ call.log = RateLimitedThenText(k)) =>
            /\ call.result = "text"
            /\ call.calls = k + 1
            /\ Len(call.waits) = k
            /\ \A j \in 1..k : call.waits[j] = RATE_LIMIT_INITIAL_BACKOFF * 2^(j - 1)
    /\ (call.status = "returned" /\ call.log = RateLimitedThenText(3)) =>
            call.waits = <<10, 20, 40>>

\* C11 witness: three rate limits, then text.
C11_Witness ==
    /\ call.status = "returned"
    /\ call.log = RateLimitedThenText(3)
    /\ call.result = "text"

\* The attempt that is answered by a content block.
BlockedStep ==
    (call'.calls = call.calls + 1 /\ call'.log[Len(call'.log)] = "blocked") =>
        /\ call'.status = "returned"
        /\ call'.result = None
        /\ call'.waits = call.waits

\* No attempt is made once the call has returned.
ReturnedIsFinal == call.status = "returned" => call' = call

\* C12: an attempt answered by a content block is the last one: the call
\* returns None at once, without a wait and without another invocation,
\* whatever the attempt number.
C12_BlockNotRetried ==
    /\ [](\A k \in 1..Len(call.log) :
            call.log[k] = "blocked" =>
                /\ k = Len(call.log)
                /\ call.status = "returned"
                /\ call.result = None)
    /\ [][BlockedStep]_vars
    /\ [][ReturnedIsFinal]_vars

\* C12 witness: a content block on the third attempt, after two waits.
C12_Witness ==
    /\ call.status = "returned"
    /\ call.calls = 3
    /\ call.log[3] = "blocked"
    /\ Len(call.waits) = 2

\* The four checks of the quality gate as the claim words them, in order.
Stripped(s) == strip(s)
QualityAppNamed(st) == Stripped(st.primary_app) \notin {"", "Unknown", "N/A", "None"}
QualityAppNamedRaw(st) == st.primary_app \notin {"", "Unknown", "N/A", "None"}
QualityHasSteps(st) == st.sop_step_count # 0
QualityScoreOk(st) == st.automation_score >= 30
QualityDescribed(st) == Len(Stripped(st.workflow_description)) >= 20

QualityReference(st, app_named) ==
    IF ~app_named THEN [is_useful |-> FALSE, reason |-> "No application detected"]
    ELSE IF ~QualityHasSteps(st)
    THEN [is_useful |-> FALSE, reason |-> "No workflow steps detected"]
    ELSE IF ~QualityScoreOk(st)
    THEN [is_useful |-> FALSE, reason |-> "Very low automation potential"]
    ELSE IF ~QualityDescribed(st)
    THEN [is_useful |-> FALSE, reason |-> "No meaningful workflow description"]
    ELSE [is_useful |-> TRUE, reason |-> ""]

\* C13 (as the code has it): the gate answers usable with an empty reason
\* exactly when the stripped primary_app is none of "", "Unknown", "N/A",
\* "None", the step count is not zero, the score is at least 0.3 and the
\* stripped description has at least 20 characters; otherwise it answers not
\* usable with the reason of the first failing check in that order.
C13_QualityGateReference ==
    (eval.fn = "check_analysis_quality" /\ eval.done) =>
        /\ eval.output = QualityReference(eval.input, QualityAppNamed(eval.input))
        /\ (eval.output.is_useful <=>
                /\ QualityAppNamed(eval.input)
                /\ QualityHasSteps(eval.input)
                /\ QualityScoreOk(eval.input)
                /\ QualityDescribed(eval.input))
        /\ (eval.output.is_useful <=> eval.output.reason = "")

\* C13 witness: primary_app "Unknown", 0 steps, score 0.0 and an empty
\* description give "No application detected".
C13_Witness ==
    /\ eval.fn = "check_analysis_quality"
    /\ eval.done
    /\ eval.input = empty_structured
    /\ eval.output = [is_useful |-> FALSE, reason |-> "No application detected"]

\* C13 as stated: the application check compares primary_app as it is.
C13_QualityGateUnstripped ==
    (eval.fn = "check_analysis_quality" /\ eval.done) =>
        eval.output = QualityReference(eval.input, QualityAppNamedRaw(eval.input))

\* An iteration that ends with an exception: one failure, one error string
\* naming the video, nothing else counted, and the loop at its next video.
Isolated ==
    /\ stats' = [stats EXCEPT !.failed = @ + 1,
                              !.errors = Append(@, <<"exception", loc.video_id>>)]
    /\ i' = i + 1
    /\ pc' = "loop"
    /\ runs' = runs
    /\ to_process' = to_process

\* the engine raised for the current video
EngineRaisedStep == (pc = "analyzed" /\ loc.engine.kind = "raise") => Isolated

\* an exception recorded by any step of the iteration (probe, quarantine,
\* artifact save, row append, ledger or manifest update)
ExceptionRecordedStep ==
    (/\ Len(stats'.errors) = Len(stats.errors) + 1
     /\ stats'.errors[Len(stats'.errors)][1] = "exception") => (pc \in IterationPcs /\ Isolated)

\* no step of an iteration leaves the loop: it stays with its video or hands
\* the loop the next one
IterationStep ==
    pc \in IterationPcs =>
        \/ pc' \in IterationPcs /\ i' = i /\ stats' = stats
        \/ pc' = "loop" /\ i' = i + 1

\* C14: an exception raised while a video is processed (probe, analysis,
\* artifact save, row append, ledger or manifest update) is recorded as one
\* failure with an error string for that video; the loop goes on to the
\* next video, the summary is reached only after every video of the
\* to-process list had its turn, and every run does reach its summary.
C14_FailureIsolation ==
    /\ [][EngineRaisedStep]_vars
    /\ [][ExceptionRecordedStep]_vars
    /\ [][IterationStep]_vars
    /\ [](pc = "exit" => i = Len(to_process) + 1)
    /\ [](pc \in IterationPcs => (i \in 1..Len(to_process) /\ loc.video_id = to_process[i]))
    /\ (pc \in IterationPcs \cup {"loop"}) ~> (pc = "exit")

\* C14 witness: the summary of a run whose first video raised an exception
\* and whose second video was analysed and recorded after it.
C14_Witness ==
    /\ pc = "exit"
    /\ Len(to_process) = 2
    /\ stats.failed = 1
    /\ stats.errors = << <<"exception", to_process[1]>> >>
    /\ stats.processed = 1
    /\ processed_log # <<>>
    /\ processed_log[Len(processed_log)] = to_process[2]

\* The iteration of a video whose ledger line could not be written ends.
LedgerWriteFailureCounted ==
    (pc \in {"manifest", "q_manifest"} /\ loc.write_failed) =>
        stats'.failed = stats.failed + 1

\* C15: when a write to the dataset or to a ledger fails for a video
\* (append_row, mark_processed or mark_rejected hits a write error), the
\* run counts the video in stats.failed and the video_id is in neither
\* ledger afterwards.
C15_WriteFailureCounted ==
    /\ [][LedgerWriteFailureCounted]_vars
    /\ []((pc \in {"manifest", "q_manifest"} /\ loc.write_failed)
            => loc.video_id \notin LogIds(processed_log) \cup RejectedIds(rejected_log))

\* the ids present in both ledgers
InBothLedgers == LogIds(processed_log) \cap RejectedIds(rejected_log)

\* C16 (as the code has it): as long as every ledger read of every run went
\* through without an error, no video_id is in both the processed ledger
\* and the rejected ledger.
C16_LedgersDisjoint == run_info.read_errors = 0 => InBothLedgers = {}

\* C16 witness: a second run that skipped two videos, one for each ledger,
\* with no read error so far.
C16_Witness ==
    /\ pc = "idle"
    /\ runs = 2
    /\ run_info.read_errors = 0
    /\ stats.skipped = 2
    /\ processed_log # <<>>
    /\ rejected_log # <<>>

\* C16 (as the spec has it): after any sequence of runs no video_id is in
\* both ledgers.
C16_LedgersDisjointAlways == InBothLedgers = {}

\* The stages of a quarantine.
QuarantinePcs == {"q_move", "q_mark", "q_manifest"}

\* Up to the verdict of the gates, and through the whole quarantine, the
\* iteration of a video writes no dataset row, no artifact and no processed
\* ledger line, and a quarantine never turns into the persistence stages.
QuarantineFrame ==
    (pc \in {"probe", "analyze", "analyzed"} \cup QuarantinePcs) =>
        /\ dataset' = dataset
        /\ analyses' = analyses
        /\ processed_log' = processed_log
        /\ (pc \in QuarantinePcs => pc' \in QuarantinePcs \cup {"loop"})

\* the call of mark_rejected that returned
MarkRejectedStep ==
    (pc = "q_mark" /\ pc' = "q_manifest") =>
        rejected_log' = IF loc'.write_failed THEN rejected_log
                        ELSE Append(rejected_log, [video_id |-> loc.video_id,
                                                   reason |-> loc.reason])

\* a video is counted rejected at the end of its quarantine only
RejectedCountedStep ==
    stats'.rejected # stats.rejected =>
        \/ pc = "idle" /\ stats'.rejected = 0
        \/ pc = "q_manifest" /\ stats'.rejected = stats.rejected + 1

\* C17: a video the run rejects, by the duration gate or by the quality
\* gate, gets no dataset row, no markdown artifact and no processed-ledger
\* line from that run, and mark_rejected is called for it with the reason
\* of the rejection.
C17_QuarantineNeverInDataset ==
    /\ [](pc \in QuarantinePcs
            => /\ loc.via \in {"duration", "quality"}
               /\ loc.reason \in {TooShort, TooLong, NoApp, NoSteps, LowScore,
                                  NoDescription}
               /\ loc.via = "duration" <=> loc.reason \in {TooShort, TooLong}
               /\ loc.gemini_result = None
               /\ ~loc.analysis_md_path)
    /\ [](pc \in {"save_md", "append", "mark", "manifest"} => loc.via = "")
    /\ [][QuarantineFrame]_vars
    /\ [][MarkRejectedStep]_vars
    /\ [][RejectedCountedStep]_vars
    /\ []((RejectedIds(rejected_log) \ run_info.on_disk) \cap LogIds(processed_log) = {})

\* C17 witness: the second video of a run in quarantine by the quality gate,
\* its line with the reason in the rejected ledger, after the first video got
\* its row.
C17_Witness ==
    /\ pc = "q_manifest"
    /\ i = 2
    /\ loc.via = "quality"
    /\ rejected_log # <<>>
    /\ rejected_log[Len(rejected_log)] = [video_id |-> loc.video_id, reason |-> loc.reason]
    /\ RowsOf(dataset, to_process[1]) = 1
    /\ RowsOf(dataset, loc.video_id) = 0
    /\ loc.video_id \notin analyses
    /\ loc.video_id \notin LogIds(processed_log)

\* A step of a dry run: nothing on disk changes, no stage of the loop body
\* is entered, the engine is not called and no report is generated.
DryRunStep ==
    (args.dry_run /\ pc # "idle") =>
        /\ UNCHANGED disk_vars
        /\ pc' \in {"loop", "exit", "idle"}
        /\ loc' = LocInit
        /\ ~run_info'.report
        /\ UNCHANGED <<faults, call>>

\* C18: a run with dry_run set leaves the dataset, both ledgers, the
\* manifest, the video files and the artifacts unchanged whatever was
\* discovered and whatever the ledgers hold: no probe, no upload or model
\* call, no append, no move and no report generation.
C18_DryRunNoSideEffects ==
    /\ [][DryRunStep]_vars
    /\ []((args.dry_run /\ runs > 0)
            => /\ pc \in {"loop", "exit", "idle"}
               /\ loc = LocInit
               /\ ~run_info.report)

\* C18 witness: a finished dry run, after another run recorded one video,
\* that skipped that video and counted the other one.
C18_Witness ==
    /\ pc = "idle"
    /\ runs = 2
    /\ args.dry_run
    /\ stats.skipped = 1
    /\ stats.processed = 1
    /\ Len(Rows(dataset)) = 1

\* A run in metadata-only mode that does write.
MetadataOnly == args.metadata_only /\ ~args.dry_run /\ runs > 0

\* the row of a video without analysis: the defaults of build_row
DefaultRow(v) ==
    [kind |-> "row", video_id |-> v, primary_app |-> "", analysis_md_path |-> FALSE]

\* No step of such a run enters the analysis or the artifact stage or
\* changes the artifacts; the probe hands the video to the duration gate,
\* which quarantines it or sends it straight to the row; the row appended
\* is the default row.
MetadataOnlyStep ==
    (MetadataOnly /\ pc # "idle") =>
        /\ pc' \notin {"analyze", "analyzed", "save_md"}
        /\ loc'.engine_calls = 0
        /\ loc'.engine = NoEngine
        /\ analyses' = analyses
        /\ call' = call
        /\ (pc = "probe" /\ pc' # "loop") =>
              /\ loc'.duration > 0 /\ loc'.duration < Tenths(MIN_VIDEO_DURATION_SEC)
                    => pc' = "q_move" /\ loc'.reason = TooShort
              /\ loc'.duration > Tenths(MAX_VIDEO_DURATION_SEC)
                    => pc' = "q_move" /\ loc'.reason = TooLong
              /\ pc' \in {"q_move", "append"}
              /\ pc' = "q_move" => loc'.via = "duration"
        /\ (pc = "append" /\ pc' = "mark") =>
              dataset' = Append(initialize_csv(dataset), DefaultRow(loc.video_id))

C20_ExitStatus ==
    (pc = "idle" /\ runs > 0) =>
        /\ run_info.exit_status \in {0, 1}
        /\ run_info.exit_status # 0 <=> stats.failed > 0
        /\ (stats.processed + stats.rejected + stats.skipped = stats.total
              /\ stats.failed = 0)
             => run_info.exit_status = 0

\* C20 witness: a run that exited with status 1 after one video failed and
\* another was processed.
C20_Witness ==
    /\ pc = "idle"
    /\ runs > 0
    /\ stats.failed = 1
    /\ stats.processed = 1
    /\ run_info.exit_status = 1

\* C21: get_video_metadata never raises: whatever the size read and ffprobe
\* do (missing tool, timeout, non-zero exit, unparsable output, a duration
\* field that is missing or no number) it returns a result, with
\* duration_sec = -1 when the duration could not be obtained, and with the
\* file size.
C21_ProbeNeverRaises ==
    (eval.fn = "get_video_metadata" /\ eval.done) =>
        /\ ~eval.output.raised
        /\ eval.input.run.kind # "ok" => eval.output.duration_sec = Unknown
        /\ eval.output.file_size_mb = file_size_mb(eval.input.file_size_bytes)

\* The nine fields of a structured result.
StructuredFields ==
    {"workflow_description", "primary_app", "app_sequence", "detected_actions",
     "automation_score", "workflow_category", "sop_step_count",
     "automation_candidate_count", "top_automation_candidate"}

\* C22: for every non-empty Pass 2 response text (no JSON, fenced JSON, an
\* object with fields missing, valid JSON that is no object)
\* _parse_json_response raises nothing and returns a structure with all
\* nine fields, the score within its range and the counts integers, so that
\* analyze_video goes on to the quality gate.
C22_ParseAlwaysStructured ==
    (eval.fn = "parse_json_response" /\ eval.done) =>
        /\ ~eval.output.raised
        /\ DOMAIN eval.output.structured = StructuredFields
        /\ eval.output.structured.automation_score \in 0..100
        /\ eval.output.structured.sop_step_count \in Int
        /\ eval.output.structured.automation_candidate_count \in Int

\* The automation_score the spec lays down for a raw value: a number or a
\* numeric text is clamped to [0, 1]; every other value (a text that is no
\* number, null, a list, a boolean, NaN) and a missing field give 0.
ScoreClaimed(raw) ==
    IF raw.t = "number" /\ raw.s = "inf" THEN 100
    ELSE IF raw.t = "number" /\ raw.s = "-inf" THEN 0
    ELSE IF raw.t = "number" /\ raw.s = "" THEN
         (IF raw.n < 0 THEN 0 ELSE IF raw.n > 100 THEN 100 ELSE raw.n)
    ELSE IF raw.t = "string" /\ float_of_text(raw.s).ok THEN
         (IF float_of_text(raw.s).n < 0 THEN 0
          ELSE IF float_of_text(raw.s).n > 100 THEN 100 ELSE float_of_text(raw.s).n)
    ELSE 0

\* C25: for every raw automation_score of a parsed Pass 2 response the
\* structured automation_score is within [0.0, 1.0]: a value below 0
\* becomes 0.0, a value above 1 becomes 1.0, a value in the range is kept,
\* a non-numeric or missing value becomes 0.0.
C25_ScoreClamped ==
    (eval.fn = "parse_json_response" /\ eval.done /\ ~eval.output.raised
        /\ eval.input.form \in {"json", "fenced"} /\ eval.input.valid) =>
        /\ eval.output.structured.automation_score \in 0..100
        /\ eval.output.structured.automation_score =
             ScoreClaimed(Get(eval.input.data, "automation_score", JNull))

\* the kill itself changes nothing that was written
KillFrame == (pc \in IterationPcs /\ pc' = "idle") => UNCHANGED disk_vars

\* C23: a kill between two operations of a video leaves every row and every
\* ledger line written before it unchanged, and the next run either skips
\* the video because it is marked or processes it again to a processed or
\* rejected outcome, without a second dataset row.
C23_CrashSafe ==
    /\ [][KillFrame]_vars
    /\ [](\A v \in run_info.killed : RowsOf(dataset, v) <= 1)

\* the quarantine by the duration gate ends without a delay
DurationQuarantineNoDelay ==
    (pc = "q_manifest" /\ loc.via = "duration") =>
        run_info'.engine_gap = run_info.engine_gap

\* C24: in a full-analysis run the delay of API_CALL_DELAY_SECONDS is
\* applied at least once between one call of the analysis engine and the
\* next, whatever the first call led to (processed, rejected by the quality
\* gate, failed, exception), and no delay is applied after a video the
\* duration gate quarantined.
C24_InterVideoDelay ==
    /\ [](pc = "analyze" => run_info.engine_gap # "pending")
    /\ [][DurationQuarantineNoDelay]_vars

\* C26: update_workflow_sessions_status changes only the Status and the
\* RejectionReason of the rows whose recomputed id is video_id: the number
\* and the order of the rows, the other columns of every row and the status
\* cells that other rows already had are as before; when no row matches the
\* file is not rewritten and False is returned.
C26_ManifestFrame ==
    (eval.fn = "update_workflow_sessions_status" /\ eval.done) =>
        LET in == eval.input.table
            out == eval.output.table
            matches == {k \in DOMAIN in.rows : in.rows[k].id = eval.input.video_id}
        IN  /\ ~eval.output.raised
            /\ Len(out.rows) = Len(in.rows)
            /\ \A k \in DOMAIN in.rows :
                 /\ out.rows[k].id = in.rows[k].id
                 /\ out.rows[k].user = in.rows[k].user
                 /\ (k \notin matches /\ in.header = "both")
                      => /\ out.rows[k].Status = in.rows[k].Status
                         /\ out.rows[k].RejectionReason = in.rows[k].RejectionReason
                 /\ (k \in matches /\ eval.output.returned)
                      => out.rows[k].Status = eval.input.status
            /\ matches = {} => (~eval.output.returned /\ out = in)

\* C27: load_processed_ids and load_rejected_ids never raise; a missing
\* ledger file gives the empty set, and so does a read error, also one
\* that comes after some lines were read.
C27_LoadsReadTolerant ==
    (eval.fn = "load_ids" /\ eval.done) =>
        /\ ~eval.output.raised
        /\ ~eval.input.present => eval.output.ids = {}
        /\ eval.input.read.kind # "ok" => eval.output.ids = {}
        /\ (eval.input.present /\ eval.input.read.kind = "ok")
             => eval.output.ids = Range(eval.input.log)

\* C28: within one run the system appends at most one dataset row and at most
\* one ledger entry for a video_id, whatever list discovery returned, a list
\* with the same video_id in two entries included.
RowsAppended(v) ==
    RowsOf(SubSeq(dataset, run_info.at_start.dataset + 1, Len(dataset)), v)

LedgerEntriesAppended(v) ==
    Cardinality({k \in run_info.at_start.processed + 1..Len(processed_log) :
                    processed_log[k] = v})
    + Cardinality({k \in run_info.at_start.rejected + 1..Len(rejected_log) :
                    rejected_log[k].video_id = v})

C28_OncePerRun ==
    \A v \in Videos : RowsAppended(v) <= 1 /\ LedgerEntriesAppended(v) <= 1

\* C28 for the lists without a repeated video_id (sanity of the model).
OncePerRunWhenDistinct ==
    (\A k, l \in 1..Len(to_process) : to_process[k] = to_process[l] => k = l)
        => C28_OncePerRun

\* C29: when the handle is still PROCESSING once the accumulated poll time
\* has reached VIDEO_UPLOAD_TIMEOUT, the call attempts the delete exactly
\* once, whether or not the delete raises, _upload_video ends with
\* TimeoutError, neither pass is issued and analyze_video returns None.
TimedOutStep ==
    /\ eval.output.at = "while"
    /\ eval.output.state = "PROCESSING"
    /\ eval.output.elapsed >= VIDEO_UPLOAD_TIMEOUT

TimedOutSignalled ==
    TimedOutStep =>
        /\ eval'.output.at = "ended"
        /\ eval'.output.outcome = "TimeoutError"
        /\ eval'.output.deletes = 1

TimeoutReturnsNone ==
    (eval.output.at = "returned" /\ eval.output.outcome = "TimeoutError") =>
        /\ eval.output.returns = "None"
        /\ eval.output.deletes = 1
        /\ ~eval.output.pass1_issued
        /\ ~eval.output.pass2_issued

C29_PollTimeout == [][TimedOutSignalled]_vars /\ []TimeoutReturnsNone

C29_Witness ==
    /\ eval.output.at = "returned"
    /\ eval.output.outcome = "TimeoutError"
    /\ eval.output.delete_raised
    /\ eval.output.elapsed = VIDEO_UPLOAD_TIMEOUT

\* C30: the poll loop terminates; it makes at most VIDEO_UPLOAD_TIMEOUT /
\* VIDEO_UPLOAD_POLL_INTERVAL re-checks of the handle's state and, when no
\* File API call raises, ends ready (state neither PROCESSING nor FAILED),
\* with RuntimeError (state FAILED) or with TimeoutError (state still
\* PROCESSING); a handle that has left PROCESSING at the last permitted
\* re-check ends ready or failed, not timed out.
PollBounded == eval.output.checks <= VIDEO_UPLOAD_TIMEOUT \div VIDEO_UPLOAD_POLL_INTERVAL

PollEndsClassified ==
    (eval.output.at = "ended" /\ eval.output.outcome # "raised") =>
        /\ eval.output.outcome \in {"ready", "RuntimeError", "TimeoutError"}
        /\ eval.output.outcome = "TimeoutError" <=> eval.output.state = "PROCESSING"
        /\ eval.output.outcome = "RuntimeError" <=> eval.output.state = "FAILED"

PollLeft == eval.output.at \notin {"upload", "while"}

C30_PollTerminates == []PollBounded /\ []PollEndsClassified /\ <>PollLeft

C30_Witness ==
    /\ eval.output.at = "ended"
    /\ eval.output.checks = VIDEO_UPLOAD_TIMEOUT \div VIDEO_UPLOAD_POLL_INTERVAL
    /\ eval.output.outcome = "ready"

\* C31: within one call the first wait caused by a rate limit is the
\* configured initial delay and every later rate-limit wait is twice the
\* rate-limit wait before it, whatever the other attempts of the call did.
\* The wait that followed attempt k of the call (attempts that are followed
\* by a sleep: a rate limit, or another error before the last attempt).
WaitAfter(k) ==
    call.waits[Cardinality({j \in 1..k :
                   \/ call.log[j] = "rate_limit"
                   \/ (call.log[j] = "other" /\ j < MAX_API_RETRIES)})]

RateLimited == {k \in 1..Len(call.log) : call.log[k] = "rate_limit"}

PreviousRateLimit(k) == CHOOSE j \in RateLimited : j < k /\ \A l \in RateLimited : l < k => l <= j

C31_BackoffUnderMixedFailures ==
    \A k \in RateLimited :
        IF \A j \in RateLimited : j >= k
        THEN WaitAfter(k) = RATE_LIMIT_INITIAL_BACKOFF
        ELSE WaitAfter(k) = 2 * WaitAfter(PreviousRateLimit(k))

\* C31 restricted to calls in which only rate limits precede a rate limit
\* (sanity of the model: the schedule of C11).
BackoffWhenOnlyRateLimits ==
    (\A k \in 1..Len(call.log) : call.log[k] \in {"rate_limit", "text"})
        => C31_BackoffUnderMixedFailures

\* C32: an attempt that returns without error and without text uses up one
\* attempt: while the budget allows it is followed by the next attempt, and
\* a call whose MAX_API_RETRIES attempts all returned no text returns None
\* after exactly MAX_API_RETRIES attempts.
EmptyAttemptStep ==
    (call'.calls = call.calls + 1 /\ call'.log[Len(call'.log)] = "empty") =>
        /\ call'.waits = call.waits
        /\ IF call.attempt < MAX_API_RETRIES
           THEN call'.status = "running" /\ call'.attempt = call.attempt + 1
           ELSE call'.status = "returned" /\ call'.result = None

AllEmpty == \A k \in 1..Len(call.log) : call.log[k] = "empty"

AllEmptyReturnsNone ==
    (call.status = "returned" /\ call.calls > 0 /\ AllEmpty) =>
        /\ call.result = None
        /\ call.calls = MAX_API_RETRIES

C32_EmptyConsumesAttempt == [][EmptyAttemptStep]_vars /\ []AllEmptyReturnsNone

C32_Witness ==
    /\ call.status = "returned"
    /\ call.calls = MAX_API_RETRIES
    /\ AllEmpty
    /\ call.result = None

\* C37: a wait in _call_gemini comes before another attempt only: the
\* attempt that used up the budget is followed by no sleep, whether it ended
\* in a rate limit, another error or an empty response.
WaitPrecedesAttempt ==
    (call'.calls = call.calls + 1 /\ call'.waits # call.waits) =>
        call'.status = "running"

C37_NoWaitAfterFinalAttempt == [][WaitPrecedesAttempt]_vars

\* C37 for final attempts that end in another error or an empty response
\* (sanity of the model: line 415 guards that sleep).
NoWaitAfterFinalOtherOrEmpty ==
    (call.status = "returned" /\ call.calls = MAX_API_RETRIES
        /\ call.log[MAX_API_RETRIES] \in {"other", "empty"}) =>
        Len(call.waits) < MAX_API_RETRIES

\* C33: Pass 1 is issued only once the uploaded handle has left PROCESSING
\* in a state other than FAILED, Pass 2 only once Pass 1 has returned text;
\* when Pass 1 yields no text Pass 2 is never issued and analyze_video
\* returns None.
Pass1IssuedStep ==
    (eval'.output.pass1_issued /\ ~eval.output.pass1_issued) =>
        /\ eval.output.outcome = "ready"
        /\ eval.output.state \notin {"", "PROCESSING", "FAILED"}
        /\ eval.output.video_file

Pass2IssuedStep ==
    (eval'.output.pass2_issued /\ ~eval.output.pass2_issued) =>
        /\ eval.output.pass1_issued
        /\ eval.output.pass1_text

Pass1NoTextReturnsNone ==
    (eval.output.pass1_issued /\ ~eval.output.pass1_text) =>
        /\ eval.output.at = "returned"
        /\ eval.output.returns = "None"
        /\ ~eval.output.pass2_issued

C33_TwoPassOrder ==
    /\ [][Pass1IssuedStep]_vars
    /\ [][Pass2IssuedStep]_vars
    /\ []Pass1NoTextReturnsNone

\* C33 witness: Pass 1 came back without text after a handle that was
\* PROCESSING at first.
C33_Witness ==
    /\ eval.output.at = "returned"
    /\ eval.output.checks > 0
    /\ eval.output.pass1_issued
    /\ ~eval.output.pass1_text
    /\ eval.output.returns = "None"

\* C34: after any run a manifest row has Status "Analyzed" only if its
\* video_id is in the processed ledger, and Status "Rejected" only if its
\* video_id is in the rejected ledger.
ManifestAgreesWithLedger ==
    \A v \in Videos :
        /\ sessions[v].Status = "Analyzed" => v \in LogIds(processed_log)
        /\ sessions[v].Status = "Rejected" => v \in RejectedIds(rejected_log)

C34_ManifestAgreesWithLedger == pc = "idle" => ManifestAgreesWithLedger

\* C34 for the runs in which no operation failed (sanity of the model).
ManifestAgreesWithoutFaults == faults = 0 => ManifestAgreesWithLedger

\* C35: after any sequence of append_row calls the header is the first
\* line of the dataset and occurs once, the lines written before a call are
\* unchanged in content and position after it, and every row has one value
\* per schema column, in schema order, a missing or None value being the
\* empty string.
DatasetLines == eval.output.lines

HeaderFirstOnce ==
    DatasetLines # <<>> =>
        /\ DatasetLines[1] = CSV_COLUMNS
        /\ \A k \in 2..Len(DatasetLines) : DatasetLines[k] # CSV_COLUMNS

RowsComplete ==
    \A k \in 2..Len(DatasetLines) : Len(DatasetLines[k]) = Len(CSV_COLUMNS)

LinesKept ==
    /\ Len(eval'.output.lines) >= Len(DatasetLines)
    /\ SubSeq(eval'.output.lines, 1, Len(DatasetLines)) = DatasetLines

\* the row a successful call appended, against the dictionary it was given
\* (processed_at aside, which append_row fills in)
RowAsGiven ==
    eval'.output.returned = "True" /\ eval'.output.calls = eval.output.calls + 1 =>
        LET row == eval'.output.lines[Len(eval'.output.lines)]
            given == eval'.input
        IN  /\ Len(eval'.output.lines) = Len(DatasetLines) + 1
               \/ (DatasetLines = <<>> /\ Len(eval'.output.lines) = 2)
            /\ \A c \in 1..Len(CSV_COLUMNS) :
                CSV_COLUMNS[c] # "processed_at" =>
                    row[c] = IF CSV_COLUMNS[c] \in DOMAIN given
                                /\ given[CSV_COLUMNS[c]] # None
                             THEN given[CSV_COLUMNS[c]] ELSE ""

C35_DatasetAppendOnly ==
    /\ []HeaderFirstOnce
    /\ []RowsComplete
    /\ [][LinesKept]_vars
    /\ [][RowAsGiven]_vars

\* C35 as long as no header write has failed (sanity of the model).
DatasetAppendOnlyHeaderWritten ==
    /\ [](~eval.output.header_failed => HeaderFirstOnce)
    /\ []RowsComplete
    /\ [][LinesKept]_vars
    /\ [][RowAsGiven]_vars

\* C36: with a limit N > 0 a run attempts at most N videos, the first N in
\* discovery order of the videos that are not already handled; a video
\* beyond the limit gets no probe, analysis, write or ledger entry in the
\* run and is left as it was for the next run.
NotHandledAtStart == unhandled(load_converted_sessions, run_info.loaded)

BeyondLimit == Range(NotHandledAtStart) \ Range(to_process)

LimitTakesFirst ==
    (runs > 0 /\ args.limit > 0 /\ NotHandledAtStart # <<>>) =>
        /\ Len(to_process) <= args.limit
        /\ Len(to_process) <= Len(NotHandledAtStart)
        /\ to_process = SubSeq(NotHandledAtStart, 1, Len(to_process))
        /\ Len(to_process) = args.limit \/ to_process = NotHandledAtStart
        /\ i <= Len(to_process) + 1
        /\ loc.video_id \in Range(to_process) \cup {0}

BeyondLimitUntouched ==
    (runs > 0 /\ args.limit > 0) =>
        \A v \in BeyondLimit :
            /\ loc.video_id # v
            /\ RowsAppended(v) = 0
            /\ LedgerEntriesAppended(v) = 0

BeyondLimitFrame ==
    (pc # "idle" /\ args.limit > 0) =>
        \A v \in BeyondLimit :
            /\ files'[v] = files[v]
            /\ (v \in analyses') = (v \in analyses)
            /\ sessions'[v].Status \in {sessions[v].Status, "Converted"}

HasMetadataOnlyRow(v) == DefaultRow(v) \in Range(dataset)

MetadataOnlyRowMarked ==
    \A v \in Videos :
        (HasMetadataOnlyRow(v) /\ ~(pc = "mark" /\ loc.video_id = v))
            => v \in LogIds(processed_log)

EngineNotInvokedAfterMetadataOnly ==
    pc = "analyzed" => ~HasMetadataOnlyRow(loc.video_id)

C38_MetadataOnlyIsFinal ==
    MetadataOnlyRowMarked /\ EngineNotInvokedAfterMetadataOnly

\* C38 in the runs without a failed operation (sanity of the model).
MetadataOnlyIsFinalWithoutFaults == faults = 0 => C38_MetadataOnlyIsFinal

\* C39 (as the code has it): when the loop has handled k videos, processed +
\* rejected + failed is k, so at the end of the run it is the number of
\* attempted videos; the number of error strings is stats.failed; and
\* stats.skipped is the number of discovered videos whose id was in the
\* ledger sets the run loaded at its start.
Discovered == Range(load_converted_sessions)

OneCountPerVideo ==
    /\ pc = "loop" => stats.processed + stats.rejected + stats.failed = i - 1
    /\ (pc \in {"exit", "idle"} /\ runs > 0)
          => stats.processed + stats.rejected + stats.failed = Len(to_process)

ErrorsMatchFailed == Len(stats.errors) = stats.failed

SkippedAreLoaded ==
    runs > 0 => stats.skipped = Cardinality(Discovered \cap run_info.loaded)

SkippedAreInLedger ==
    runs > 0 => stats.skipped = Cardinality(Discovered \cap run_info.on_disk)

C39_StatsAccounting ==
    OneCountPerVideo /\ ErrorsMatchFailed /\ SkippedAreLoaded

\* C39 witness: a finished run that skipped one video and failed on the
\* other.
C39_Witness ==
    /\ pc = "idle"
    /\ runs > 1
    /\ stats.total = 2
    /\ stats.skipped = 1
    /\ stats.failed = 1
    /\ Len(to_process) = 1

\* C39 as stated: stats.skipped counts the discovered videos whose id was in
\* either ledger at the start of the run.
C39_StatsAccountingInLedger ==
    OneCountPerVideo /\ ErrorsMatchFailed /\ SkippedAreInLedger

====
